---- MODULE Spec2Model ----
(***************************************************************************)
(* A model of traffic-monitor: the per-proxy byte counters (ProxyStats),   *)
(* the registry (StatsManager), the persistence loop (Persistence) and the *)
(* TCP relay (TCPProxy) with the supervisor's shutdown sequence (main).    *)
(*                                                                         *)
(* Nine specifications share the definitions below:                        *)
(*   SpecCounter  the counter under concurrent AddUpload/AddDownload, one  *)
(*                step per memory access, with the wall clock advancing;   *)
(*   SpecSeq      the same actions with a single caller;                   *)
(*   SpecPersist  Load / Register / Save / crash / restart with the file   *)
(*                system, Save one step per field read and file operation; *)
(*   Spec         the TCP relay, its connection handlers and copy tasks,   *)
(*                and main's shutdown sequence with the final Save;        *)
(*   SpecRelay    the TCP relay alone, with its fair scheduling;           *)
(*   SpecUdp      the UDP relay, its sessions and its Stop, with time;     *)
(*   SpecLoad     the start of a process on any state file it may find;    *)
(*   SpecGate     the TCP relay of a limited proxy across a month change;  *)
(*   SpecStop     the three Stop calls under fair scheduling.              *)
(***************************************************************************)
EXTENDS Integers, Sequences, FiniteSets, TLC

\* ------------------------------------------------------------------ bounds
MaxMonth == 2       \* the wall clock runs over months 1..MaxMonth
MaxCalls == 3       \* AddUpload/AddDownload calls started in SpecCounter
MaxAmount == 2      \* byte counts passed to one call are 1..MaxAmount
MaxAdds == 2        \* relay increments in SpecPersist
MaxBoots == 2       \* process starts in SpecPersist
MaxSaves == 2       \* periodic saves per process in SpecPersist

Workers == {"w1", "w2"}
Amounts == 1..MaxAmount

VARIABLES
    stats,      \* StatsManager.stats: name -> ProxyStats (a function on the registered names)
    clock,      \* the wall-clock month, an index into the calendar
    wpc,        \* SpecCounter: each caller's position inside AddUpload/AddDownload
    wcall,      \* SpecCounter: each caller's arguments and locals
    sumUp,      \* history: sum of the n of every AddUpload started
    sumDown,    \* history: sum of the n of every AddDownload started
    zeroStores, \* history: month -> times line 108 stored 0 for that month
    ncalls,     \* history: calls started so far
    returned,   \* history: the latest month a call that has returned began in (0: none)
    \* --- the process and Persistence (SpecPersist, Spec)
    fs,         \* the file system: file name -> [exists, data]
    mainPc,     \* main's position; "dead" when there is no process
    cfg,        \* the configuration main read at this start (an index into Configs)
    regIdx,     \* main's position in `for _, p := range cfg.Proxies`
    loadRes,    \* what persistence.Load() did at this start
    pstopCh,    \* Persistence.stopCh is closed
    savePc,     \* the goroutine of Persistence.Start
    spc,        \* the position inside Save()
    saveBy,     \* who called the Save() in progress
    saveNames,  \* Save: the counters of the snapshot still to encode
    saveField,  \* Save: the next field group to read of the counter being encoded
    saveEnc,    \* Save: name -> the field values json.MarshalIndent has read
    saveData,   \* Save: `data`, the encoded bytes
    saveErr,    \* Save: the error it returns
    prevFile,   \* history: the file at DataFile when the Save in progress was called
    srcOfPath,  \* history: the values the file at DataFile was encoded from
    nadds,      \* history: relay increments (Spec: reads that returned data) so far
    nboots,     \* history: process starts so far
    nsaves,     \* history: periodic saves begun in this process
    \* --- the TCP relay of TheName (Spec)
    tstopCh,    \* TCPProxy.stopCh is closed
    listener,   \* TCPProxy.listener: "nil", "open" or "closed"
    acceptPc,   \* the goroutine of acceptLoop
    conn,       \* client connection -> its socket pair and handleConn's position
    cp,         \* <<connection, direction>> -> the copy task's position and locals
    \* --- the UDP relay of TheName (SpecUdp)
    unow,       \* the time, in ticks of cleanupInterval
    ustopCh,    \* UDPProxy.stopCh is closed
    ulistener,  \* UDPProxy.listener: "nil", "open" or "closed"
    inbox,      \* datagrams of clients waiting in the listen socket
    rl,         \* the goroutine of readLoop: its position and locals
    clients,    \* UDPProxy.clients: client address -> session (0: no entry)
    clientsMu,  \* UDPProxy.clientsMu: "free", or the goroutine that holds it across steps
    socks,      \* session -> its udpClient, upstream socket and readFromTarget's position
    cleaner,    \* the goroutine of cleanupLoop and its ticker
    ustopPc,    \* the caller of UDPProxy.Stop
    uhist,      \* history of the UDP relay
    \* --- across processes
    held        \* history: the last clean shutdown's final save and final counters

regVars == <<stats, clock>>
callVars == <<wpc, wcall, sumUp, sumDown, zeroStores, ncalls, returned>>
saveVars == <<spc, saveBy, saveNames, saveField, saveEnc, saveData, saveErr, prevFile>>
procVars == <<mainPc, cfg, regIdx, loadRes, pstopCh, savePc, nadds, nboots, nsaves>>
persistVars == <<fs, srcOfPath, saveVars, procVars>>
tcpVars == <<tstopCh, listener, acceptPc, conn, cp>>
udpVars == <<unow, ustopCh, ulistener, inbox, rl, clients, clientsMu, socks, cleaner, ustopPc, uhist>>
histVars == <<held>>
restVars == <<persistVars, tcpVars, udpVars, histVars>>
vars == <<regVars, callVars, restVars>>

\* ---------------------------------------------------------------- calendar
\* time.Now().Format("2006-01"): the tag of a month. Months of the model's
\* calendar start at November 2024; the tag is year*100 + month-of-year
\* (2024-11, 2024-12, 2025-01, ...), so a year boundary is crossed.
currentMonthOf(k) ==
    LET m0 == 10 + k               \* k = 1 is November
        y  == 2024 + ((m0 - 1) \div 12)
        m  == ((m0 - 1) % 12) + 1
    IN  y * 100 + m

currentMonth == currentMonthOf(clock)

\* ------------------------------------------------------------- ProxyStats
TheName == "echo"

NewProxyStats(name, protocol, listenPort, targetPort, limit) ==
    [ Name |-> name, Protocol |-> protocol, ListenPort |-> listenPort,
      TargetPort |-> targetPort,
      TotalUpload |-> 0, TotalDownload |-> 0,
      MonthlyUpload |-> 0, MonthlyDownload |-> 0,
      CurrentMonth |-> currentMonth, Limit |-> limit ]

\* atomic.AddInt64(&x, n)
StoreInsteadOfAdd(old, n) == n
AtomicAddInt64(old, n) == old + n

\* IsLimitExceeded on the values it reads: s.Limit, then the two atomic loads.
LimitStrictlyGreater(limit, totalUpload, totalDownload) ==
    IF limit <= 0 THEN FALSE ELSE totalUpload + totalDownload > limit
LimitExceededOn(limit, totalUpload, totalDownload) ==
    IF limit <= 0 THEN FALSE ELSE totalUpload + totalDownload >= limit

IsLimitExceeded(s) == LimitExceededOn(s.Limit, s.TotalUpload, s.TotalDownload)

\* line 107: s.CurrentMonth != current
NeverChanged(stored, current) == FALSE
MonthChanged(stored, current) == stored # current

\* A reset that zeroes the totals with the monthly counters.
ResetTotalsToo(s, current) ==
    IF s.CurrentMonth # current
    THEN [s EXCEPT !.MonthlyUpload = 0, !.MonthlyDownload = 0, !.TotalUpload = 0,
                   !.TotalDownload = 0, !.CurrentMonth = current]
    ELSE s

\* checkMonthReset as one sequential call, `current` being what line 106 read.
checkMonthReset(s, current) ==
    IF MonthChanged(s.CurrentMonth, current)
    THEN [s EXCEPT !.MonthlyUpload = 0, !.MonthlyDownload = 0, !.CurrentMonth = current]
    ELSE s

\* AddUpload / AddDownload as one sequential call.
AddUpload(s, n, current) ==
    LET r == checkMonthReset(s, current)
    IN  [r EXCEPT !.TotalUpload = AtomicAddInt64(@, n),
                  !.MonthlyUpload = AtomicAddInt64(@, n)]

AddDownload(s, n, current) ==
    LET r == checkMonthReset(s, current)
    IN  [r EXCEPT !.TotalDownload = AtomicAddInt64(@, n),
                  !.MonthlyDownload = AtomicAddInt64(@, n)]

\* ------------------------------------------- the counter, access by access
\* A caller w of AddUpload/AddDownload on the counter TheName. Its positions:
\*   idle -> l106 -> l107 -> (l108 -> l109 -> l110 ->) addTotal -> addMonthly
\*        -> ret -> idle
\* s.CurrentMonth is a plain (non-atomic) field: concurrent callers read and
\* write it in any order; both strings have the same length, so a racing read
\* yields the old or the new tag, which is what the interleaving gives.
MonthTags == { currentMonthOf(k) : k \in 1..(MaxMonth + 1) }

NoCall == [isUpload |-> FALSE, n |-> 0, current |-> 0, began |-> 0, pre |-> <<>>]

\* The wall clock moves to the next month.
Tick ==
    /\ clock < MaxMonth
    /\ clock' = clock + 1
    /\ UNCHANGED <<stats, wpc, wcall, sumUp, sumDown, zeroStores, ncalls, returned, restVars>>

\* A task calls AddUpload(n) or AddDownload(n).
CallAdd(w) ==
    /\ wpc[w] = "idle"
    /\ ncalls < MaxCalls
    /\ \E up \in BOOLEAN, n \in Amounts :
          /\ wcall' = [wcall EXCEPT ![w] =
                 [isUpload |-> up, n |-> n, current |-> 0,
                  \* history: the wall-clock month the call begins in
                  began |-> currentMonth,
                  \* history: the counter as the call found it, kept when w is
                  \* the only caller (with several, others change it meanwhile)
                  pre |-> IF DOMAIN wpc = {w} THEN stats[TheName] ELSE <<>>]]
          /\ sumUp' = IF up THEN sumUp + n ELSE sumUp
          /\ sumDown' = IF up THEN sumDown ELSE sumDown + n
    /\ wpc' = [wpc EXCEPT ![w] = "l106"]
    /\ ncalls' = ncalls + 1
    /\ UNCHANGED <<stats, clock, zeroStores, returned, restVars>>

\* line 106: current := currentMonth()
Line106(w) ==
    /\ wpc[w] = "l106"
    /\ wcall' = [wcall EXCEPT ![w].current = currentMonth]
    /\ wpc' = [wpc EXCEPT ![w] = "l107"]
    /\ UNCHANGED <<stats, clock, sumUp, sumDown, zeroStores, ncalls, returned, restVars>>

\* line 107: if s.CurrentMonth != current
Line107(w) ==
    /\ wpc[w] = "l107"
    /\ wpc' = [wpc EXCEPT ![w] =
          IF MonthChanged(stats[TheName].CurrentMonth, wcall[w].current)
          THEN "l108" ELSE "addTotal"]
    /\ UNCHANGED <<stats, clock, wcall, sumUp, sumDown, zeroStores, ncalls, returned, restVars>>

\* line 108: atomic.StoreInt64(&s.MonthlyUpload, 0)
Line108(w) ==
    /\ wpc[w] = "l108"
    /\ stats' = [stats EXCEPT ![TheName].MonthlyUpload = 0]
    /\ zeroStores' = [zeroStores EXCEPT ![wcall[w].current] = @ + 1]
    /\ wpc' = [wpc EXCEPT ![w] = "l109"]
    /\ UNCHANGED <<clock, wcall, sumUp, sumDown, ncalls, returned, restVars>>

\* line 109: atomic.StoreInt64(&s.MonthlyDownload, 0)
Line109(w) ==
    /\ wpc[w] = "l109"
    /\ stats' = [stats EXCEPT ![TheName].MonthlyDownload = 0]
    /\ wpc' = [wpc EXCEPT ![w] = "l110"]
    /\ UNCHANGED <<clock, wcall, sumUp, sumDown, zeroStores, ncalls, returned, restVars>>

\* line 110: s.CurrentMonth = current
Line110(w) ==
    /\ wpc[w] = "l110"
    /\ stats' = [stats EXCEPT ![TheName].CurrentMonth = wcall[w].current]
    /\ wpc' = [wpc EXCEPT ![w] = "addTotal"]
    /\ UNCHANGED <<clock, wcall, sumUp, sumDown, zeroStores, ncalls, returned, restVars>>

\* lines 95 / 101: atomic.AddInt64 on the total counter
AddTotal(w) ==
    /\ wpc[w] = "addTotal"
    /\ stats' = IF wcall[w].isUpload
                THEN [stats EXCEPT ![TheName].TotalUpload = AtomicAddInt64(@, wcall[w].n)]
                ELSE [stats EXCEPT ![TheName].TotalDownload = AtomicAddInt64(@, wcall[w].n)]
    /\ wpc' = [wpc EXCEPT ![w] = "addMonthly"]
    /\ UNCHANGED <<clock, wcall, sumUp, sumDown, zeroStores, ncalls, returned, restVars>>

\* lines 96 / 102: atomic.AddInt64 on the monthly counter
AddMonthly(w) ==
    /\ wpc[w] = "addMonthly"
    /\ stats' = IF wcall[w].isUpload
                THEN [stats EXCEPT ![TheName].MonthlyUpload = AtomicAddInt64(@, wcall[w].n)]
                ELSE [stats EXCEPT ![TheName].MonthlyDownload = AtomicAddInt64(@, wcall[w].n)]
    /\ wpc' = [wpc EXCEPT ![w] = "ret"]
    /\ UNCHANGED <<clock, wcall, sumUp, sumDown, zeroStores, ncalls, returned, restVars>>

\* the call returns to its caller
ReturnAdd(w) ==
    /\ wpc[w] = "ret"
    /\ wpc' = [wpc EXCEPT ![w] = "idle"]
    /\ wcall' = [wcall EXCEPT ![w] = NoCall]
    /\ returned' = IF wcall[w].began > returned THEN wcall[w].began ELSE returned
    /\ UNCHANGED <<stats, clock, sumUp, sumDown, zeroStores, ncalls, restVars>>

\* ----------------------------------------------------------- StatsManager
EmptyStats == [name \in {} |-> 0]

\* Register: an existing name keeps its counter and takes the new limit; a new
\* name gets a zeroed counter tagged with the current month.
RegisterAlwaysNew(m, name, protocol, listenPort, targetPort, limit) ==
    [n \in DOMAIN m \cup {name} |->
        IF n = name THEN NewProxyStats(name, protocol, listenPort, targetPort, limit)
        ELSE m[n]]
Register(m, name, protocol, listenPort, targetPort, limit) ==
    IF name \in DOMAIN m
    THEN [m EXCEPT ![name].Limit = limit]
    ELSE [n \in DOMAIN m \cup {name} |->
            IF n = name THEN NewProxyStats(name, protocol, listenPort, targetPort, limit)
            ELSE m[n]]

\* --------------------------------------------------------- encoding/json
\* The bytes of a file are a sequence of tokens: the braces of an object, the
\* key of a map entry, and one token per "key": value member of a ProxyStats
\* object. A value is a string (s) or a number (n). Any proper prefix of an
\* encoding lacks its closing brace and is not valid JSON.
Tok(t, k, s, n) == [t |-> t, k |-> k, s |-> s, n |-> n]
OpenTok == Tok("{", "", "", 0)
CloseTok == Tok("}", "", "", 0)
KeyTok(name) == Tok("key", name, "", 0)
StrTok(k, s) == Tok("str", k, s, 0)
NumTok(k, n) == Tok("num", k, "", n)

\* encoding/json sorts the keys of a map; the order of the names is fixed here.
NameOrder == <<"capped", "echo">>
SortedNames(S) == SelectSeq(NameOrder, LAMBDA n : n \in S)

\* The members json.Marshal writes for a ProxyStats, in field order, under the
\* struct tags of lines 14-23. CurrentMonth is the tag of the month.
MarshalStatsWithoutLimit(s) ==
    << OpenTok,
       StrTok("name", s.Name), StrTok("protocol", s.Protocol),
       NumTok("listen_port", s.ListenPort), NumTok("target_port", s.TargetPort),
       NumTok("total_upload", s.TotalUpload), NumTok("total_download", s.TotalDownload),
       NumTok("monthly_upload", s.MonthlyUpload),
       NumTok("monthly_download", s.MonthlyDownload),
       NumTok("current_month", s.CurrentMonth),
       CloseTok >>
MarshalStats(s) ==
    << OpenTok,
       StrTok("name", s.Name), StrTok("protocol", s.Protocol),
       NumTok("listen_port", s.ListenPort), NumTok("target_port", s.TargetPort),
       NumTok("total_upload", s.TotalUpload), NumTok("total_download", s.TotalDownload),
       NumTok("monthly_upload", s.MonthlyUpload),
       NumTok("monthly_download", s.MonthlyDownload),
       NumTok("current_month", s.CurrentMonth), NumTok("limit", s.Limit),
       CloseTok >>

RECURSIVE MarshalEntries(_, _)
MarshalEntries(m, names) ==
    IF names = <<>> THEN <<>>
    ELSE <<KeyTok(Head(names))>> \o MarshalStats(m[Head(names)])
            \o MarshalEntries(m, Tail(names))

\* json.MarshalIndent of a map[string]*ProxyStats
Marshal(m) == <<OpenTok>> \o MarshalEntries(m, SortedNames(DOMAIN m)) \o <<CloseTok>>

\* The zero ProxyStats json.Unmarshal allocates for a map entry.
ZeroStats ==
    [ Name |-> "", Protocol |-> "", ListenPort |-> 0, TargetPort |-> 0,
      TotalUpload |-> 0, TotalDownload |-> 0, MonthlyUpload |-> 0,
      MonthlyDownload |-> 0, CurrentMonth |-> 0, Limit |-> 0 ]

\* The struct field a JSON key names, and whether the field is a string.
FieldOfKey ==
    [ name |-> "Name", protocol |-> "Protocol", listen_port |-> "ListenPort",
      target_port |-> "TargetPort", total_upload |-> "TotalUpload",
      total_download |-> "TotalDownload", monthly_upload |-> "MonthlyUpload",
      monthly_download |-> "MonthlyDownload", current_month |-> "CurrentMonth",
      limit |-> "Limit" ]
StringFields == {"Name", "Protocol"}

\* Decode the members of one ProxyStats object starting at toks[i] (after its
\* opening brace): [ok, val, next]. Unknown keys are skipped, a value of the
\* wrong kind is an error, the input ending before the closing brace is an error.
RECURSIVE DecodeMembers(_, _, _)
DecodeMembers(toks, i, acc) ==
    IF i > Len(toks) THEN [ok |-> FALSE, val |-> acc, next |-> i]
    ELSE LET tk == toks[i] IN
         IF tk.t = "}" THEN [ok |-> TRUE, val |-> acc, next |-> i + 1]
         ELSE IF tk.t \notin {"str", "num"} THEN [ok |-> FALSE, val |-> acc, next |-> i]
         ELSE IF tk.k \notin DOMAIN FieldOfKey THEN DecodeMembers(toks, i + 1, acc)
         ELSE LET f == FieldOfKey[tk.k] IN
              IF (f \in StringFields) # (tk.t = "str")
              THEN [ok |-> FALSE, val |-> acc, next |-> i]
              ELSE DecodeMembers(toks, i + 1,
                      [acc EXCEPT ![f] = IF tk.t = "str" THEN tk.s ELSE tk.n])

\* Decode the entries of the map starting at toks[i]: [ok, val].
RECURSIVE DecodeEntries(_, _, _)
DecodeEntries(toks, i, acc) ==
    IF i > Len(toks) THEN [ok |-> FALSE, val |-> acc]
    ELSE LET tk == toks[i] IN
         IF tk.t = "}" THEN [ok |-> i = Len(toks), val |-> acc]
         ELSE IF tk.t # "key" \/ i + 1 > Len(toks) \/ toks[i + 1].t # "{"
         THEN [ok |-> FALSE, val |-> acc]
         ELSE LET o == DecodeMembers(toks, i + 2, ZeroStats) IN
              IF ~o.ok THEN [ok |-> FALSE, val |-> acc]
              ELSE DecodeEntries(toks, o.next,
                      [n \in DOMAIN acc \cup {tk.k} |->
                          IF n = tk.k THEN o.val ELSE acc[n]])

\* A decoder that reports no error and keeps the entries it decoded.
UnmarshalLenient(data) ==
    IF Len(data) = 0 \/ data[1].t # "{" THEN [ok |-> TRUE, val |-> EmptyStats]
    ELSE [ok |-> TRUE, val |-> DecodeEntries(data, 2, EmptyStats).val]

\* json.Unmarshal(data, &stats): [ok, val]
Unmarshal(data) ==
    IF Len(data) = 0 \/ data[1].t # "{" THEN [ok |-> FALSE, val |-> EmptyStats]
    ELSE DecodeEntries(data, 2, EmptyStats)

\* ------------------------------------------------------------ the process
\* cfg.DataFile and Save's tmpFile
DataFile == "traffic_data.json"
SameAsDataFile == DataFile
TmpFile == DataFile \o ".tmp"

NoFile == [exists |-> FALSE, data |-> <<>>]
File(data) == [exists |-> TRUE, data |-> data]

\* The configurations the operator may start the process with: cfg.Proxies.
\* Between two starts the file may be edited (limit, protocol, ports, entries).
Configs ==
    << << [name |-> "echo", protocol |-> "tcp", listenPort |-> 19001,
           targetPort |-> 19002, limit |-> 2] >>,
       << [name |-> "echo", protocol |-> "both", listenPort |-> 19001,
           targetPort |-> 19003, limit |-> 0],
          [name |-> "capped", protocol |-> "tcp", listenPort |-> 19005,
           targetPort |-> 19006, limit |-> 3] >> >>

Proxies == Configs[cfg]
\* the proxies main has registered (and started) so far
Started == { Proxies[i].name : i \in 1..(regIdx - 1) }

Alive == mainPc # "dead"

\* History of the last shutdown: whether the final save of Persistence.Stop
\* returned without an error, and the counters the registry held when main
\* returned after it. Nothing is recorded for a process that was killed.
NoHeld == [ok |-> FALSE, vals |-> EmptyStats]

\* What a process that is not running holds: nothing.
ProcessGone ==
    /\ stats' = EmptyStats
    /\ mainPc' = "dead"
    /\ regIdx' = 1
    /\ loadRes' = "none"
    /\ pstopCh' = FALSE
    /\ savePc' = "none"
    /\ spc' = "idle"
    /\ saveBy' = "none"
    /\ saveNames' = <<>>
    /\ saveField' = 1
    /\ saveEnc' = EmptyStats
    /\ saveData' = <<>>
    /\ saveErr' = FALSE
    /\ prevFile' = NoFile
    /\ nsaves' = 0

\* The process is killed, or the machine's kernel panics with its page cache
\* written back: memory is lost, the files stay as the last file operation
\* left them.
Crash ==
    /\ Alive
    /\ ProcessGone
    /\ held' = NoHeld
    /\ UNCHANGED <<clock, callVars, udpVars, tcpVars, fs, srcOfPath, cfg, nadds, nboots>>

\* The process is started (again), with one of the configurations.
Restart ==
    /\ mainPc = "dead"
    /\ nboots < MaxBoots
    /\ nboots' = nboots + 1
    /\ mainPc' = "load"
    /\ cfg' \in 1..Len(Configs)
    /\ UNCHANGED <<regVars, callVars, histVars, udpVars, tcpVars, fs, srcOfPath, saveVars, regIdx, loadRes,
                   pstopCh, savePc, nadds, nsaves>>

\* main line 34, Persistence.Load: a missing file is no error; an unreadable or
\* unparsable file is an error (a warning in main); a parsed file replaces the
\* registry (SetStats).
Load ==
    /\ mainPc = "load"
    /\ \E readable \in BOOLEAN :
          LET f == fs[DataFile]
              parsed == Unmarshal(f.data)
          IN  IF ~f.exists
              THEN loadRes' = "absent" /\ stats' = stats
              ELSE IF ~readable \/ ~parsed.ok
              THEN loadRes' = "error" /\ stats' = stats
              ELSE loadRes' = "loaded" /\ stats' = parsed.val
    /\ mainPc' = "register"
    /\ held' = NoHeld
    /\ UNCHANGED <<clock, callVars, udpVars, tcpVars, fs, srcOfPath, saveVars, cfg, regIdx, pstopCh,
                   savePc, nadds, nboots, nsaves>>

\* main line 50 (and the relay's Start that follows it): Register the next proxy
RegisterNext ==
    /\ mainPc = "register"
    /\ regIdx <= Len(Proxies)
    /\ LET p == Proxies[regIdx]
       IN  stats' = Register(stats, p.name, p.protocol, p.listenPort, p.targetPort, p.limit)
    /\ regIdx' = regIdx + 1
    /\ UNCHANGED <<clock, callVars, histVars, udpVars, tcpVars, fs, srcOfPath, saveVars, mainPc, cfg, loadRes,
                   pstopCh, savePc, nadds, nboots, nsaves>>

\* main line 99, Persistence.Start: the goroutine of lines 66-81 starts
StartPersistence ==
    /\ mainPc = "register"
    /\ regIdx > Len(Proxies)
    /\ savePc' = "select"
    /\ mainPc' = "run"
    /\ UNCHANGED <<regVars, callVars, histVars, udpVars, tcpVars, fs, srcOfPath, saveVars, cfg, regIdx, loadRes,
                   pstopCh, nadds, nboots, nsaves>>

\* A relay of a started proxy forwards n bytes and calls AddUpload(n) or
\* AddDownload(n) (the call as one step here; SpecCounter takes it apart).
RelayAdd ==
    /\ Alive
    /\ nadds < MaxAdds
    /\ \E name \in Started, up \in BOOLEAN, n \in {MaxAmount} :
          stats' = [stats EXCEPT ![name] =
                      IF up THEN AddUpload(@, n, currentMonth)
                      ELSE AddDownload(@, n, currentMonth)]
    /\ nadds' = nadds + 1
    /\ UNCHANGED <<clock, callVars, histVars, udpVars, tcpVars, fs, srcOfPath, saveVars, mainPc, cfg, regIdx,
                   loadRes, pstopCh, savePc, nboots, nsaves>>

\* ------------------------------------------------------- Persistence.Save
\* Save's positions: idle -> l46 -> marshal -> l53 -> write -> l57 -> ret.
\* line 46, GetStatsMap: a shallow copy of the map (the counters are shared)
SaveSnapshot ==
    /\ spc = "l46"
    /\ saveNames' = SortedNames(DOMAIN stats)
    /\ saveEnc' = EmptyStats
    /\ saveField' = 1
    /\ IF DOMAIN stats = {}
       THEN saveData' = Marshal(EmptyStats) /\ spc' = "l53"   \* line 47 on an empty map
       ELSE saveData' = saveData /\ spc' = "marshal"
    /\ UNCHANGED <<regVars, callVars, histVars, udpVars, tcpVars, fs, srcOfPath, saveBy, prevFile, saveErr, procVars>>

\* The fields one read of json.MarshalIndent takes from a counter. The byte
\* counters and CurrentMonth are read one after another, without the atomics
\* or a lock, while relays add to them: each read yields the value stored then.
FieldGroups ==
    << {"Name", "Protocol", "ListenPort", "TargetPort", "TotalUpload"},
       {"TotalDownload"}, {"MonthlyUpload"}, {"MonthlyDownload"},
       {"CurrentMonth", "Limit"} >>

\* line 47, json.MarshalIndent: read the next fields of the counter being
\* encoded; after the last field of the last counter it returns the bytes (it
\* cannot fail on these types)
MarshalRead ==
    /\ spc = "marshal"
    /\ saveNames # <<>>
    /\ LET name == Head(saveNames)
           sofar == IF name \in DOMAIN saveEnc THEN saveEnc[name] ELSE ZeroStats
           got == [f \in DOMAIN ZeroStats |->
                     IF f \in FieldGroups[saveField] THEN stats[name][f] ELSE sofar[f]]
           enc == [n \in DOMAIN saveEnc \cup {name} |->
                     IF n = name THEN got ELSE saveEnc[n]]
           last == saveField = Len(FieldGroups)
       IN  /\ saveEnc' = enc
           /\ saveField' = IF last THEN 1 ELSE saveField + 1
           /\ saveNames' = IF last THEN Tail(saveNames) ELSE saveNames
           /\ IF last /\ Tail(saveNames) = <<>>
              THEN saveData' = Marshal(enc) /\ spc' = "l53"
              ELSE saveData' = saveData /\ spc' = spc
    /\ UNCHANGED <<regVars, callVars, histVars, udpVars, tcpVars, fs, srcOfPath, saveBy, prevFile, saveErr, procVars>>

\* line 53, os.WriteFile opens tmpFile with O_CREATE|O_TRUNC: the file is empty
WriteOpen ==
    /\ spc = "l53"
    /\ fs' = [fs EXCEPT ![TmpFile] = File(<<>>)]
    /\ spc' = "write"
    /\ UNCHANGED <<regVars, callVars, histVars, udpVars, tcpVars, srcOfPath, saveBy, prevFile, saveNames, saveField, saveEnc,
                   saveData, saveErr, procVars>>

\* line 53, os.WriteFile cannot open tmpFile: Save returns the error
WriteOpenFails ==
    /\ spc = "l53"
    /\ saveErr' = TRUE
    /\ spc' = "ret"
    /\ UNCHANGED <<regVars, callVars, histVars, udpVars, tcpVars, fs, srcOfPath, saveBy, prevFile, saveNames, saveField,
                   saveEnc, saveData, procVars>>

\* The lengths at which a write is observed: part-way (the first half of the
\* bytes, which ends inside an object) and complete.
CutPoints(data) == {Len(data) \div 2, Len(data)}

\* line 53, os.WriteFile writes: some more of the bytes reach the file; with
\* the last of them it closes the file and returns
WriteChunk ==
    /\ spc = "write"
    /\ LET have == Len(fs[TmpFile].data)
       IN  \E k \in CutPoints(saveData) :
              /\ k > have
              /\ fs' = [fs EXCEPT ![TmpFile] = File(SubSeq(saveData, 1, k))]
              /\ spc' = IF k = Len(saveData) THEN "l57" ELSE spc
    /\ UNCHANGED <<regVars, callVars, histVars, udpVars, tcpVars, srcOfPath, saveBy, prevFile, saveNames, saveField, saveEnc,
                   saveData, saveErr, procVars>>

\* line 53, os.WriteFile fails part-way (disk full, I/O error): Save returns it
WriteFails ==
    /\ spc = "write"
    /\ saveErr' = TRUE
    /\ spc' = "ret"
    /\ UNCHANGED <<regVars, callVars, histVars, udpVars, tcpVars, fs, srcOfPath, saveBy, prevFile, saveNames, saveField,
                   saveEnc, saveData, procVars>>

\* line 57, os.Rename(tmpFile, filePath): atomic replacement (rename(2))
Rename ==
    /\ spc = "l57"
    /\ fs' = [f \in DOMAIN fs |->
                IF f = DataFile THEN fs[TmpFile]
                ELSE IF f = TmpFile THEN NoFile ELSE fs[f]]
    /\ srcOfPath' = saveEnc
    /\ saveErr' = FALSE
    /\ spc' = "ret"
    /\ UNCHANGED <<regVars, callVars, histVars, udpVars, tcpVars, saveBy, prevFile, saveNames, saveField, saveEnc, saveData,
                   procVars>>

\* line 57, os.Rename fails: nothing is renamed, Save returns the error
RenameFails ==
    /\ spc = "l57"
    /\ saveErr' = TRUE
    /\ spc' = "ret"
    /\ UNCHANGED <<regVars, callVars, histVars, udpVars, tcpVars, fs, srcOfPath, saveBy, prevFile, saveNames, saveField,
                   saveEnc, saveData, procVars>>

\* Save has returned to its caller: its locals are gone
SaveReturns ==
    /\ spc' = "idle"
    /\ saveBy' = "none"
    /\ saveEnc' = EmptyStats
    /\ saveData' = <<>>
    /\ saveErr' = FALSE
    /\ prevFile' = NoFile

\* ------------------------------------------- Persistence.Start and Stop
\* lines 72-76: the ticker fires and the goroutine calls Save
SaverTick ==
    /\ savePc = "select"
    /\ nsaves < MaxSaves
    /\ nsaves' = nsaves + 1
    /\ savePc' = "saving"
    /\ spc' = "l46"
    /\ saveBy' = "saver"
    /\ saveErr' = FALSE
    /\ prevFile' = fs[DataFile]
    /\ UNCHANGED <<regVars, callVars, histVars, udpVars, tcpVars, fs, srcOfPath, saveNames, saveField, saveEnc,
                   saveData, mainPc, cfg, regIdx, loadRes, pstopCh, nadds, nboots>>

\* lines 74-76: Save returned to the goroutine (an error is logged), next select
SaverSaved ==
    /\ savePc = "saving"
    /\ spc = "ret"
    /\ SaveReturns
    /\ savePc' = "select"
    /\ UNCHANGED <<regVars, callVars, histVars, udpVars, tcpVars, fs, srcOfPath, saveNames, saveField,
                   mainPc, cfg, regIdx, loadRes, pstopCh, nadds, nboots, nsaves>>

\* lines 77-78: the goroutine sees stopCh closed and returns (wg.Done)
SaverStops ==
    /\ savePc = "select"
    /\ pstopCh
    /\ savePc' = "exited"
    /\ UNCHANGED <<regVars, callVars, histVars, udpVars, tcpVars, fs, srcOfPath, saveVars, mainPc, cfg, regIdx,
                   loadRes, pstopCh, nadds, nboots, nsaves>>

\* main lines 108-110: a termination signal arrives
Signal ==
    /\ mainPc = "run"
    /\ mainPc' = "stopRelays"
    /\ UNCHANGED <<regVars, callVars, histVars, udpVars, tcpVars, fs, srcOfPath, saveVars, cfg, regIdx, loadRes,
                   pstopCh, savePc, nadds, nboots, nsaves>>

\* main lines 112-116 where the relays are left out: every Stop has returned
RelaysStopped ==
    /\ mainPc = "stopRelays"
    /\ mainPc' = "l85"
    /\ UNCHANGED <<regVars, callVars, histVars, udpVars, tcpVars, fs, srcOfPath, saveVars, cfg, regIdx, loadRes,
                   pstopCh, savePc, nadds, nboots, nsaves>>

\* Persistence.Stop line 85: close(p.stopCh)
StopClose ==
    /\ mainPc = "l85"
    /\ pstopCh' = TRUE
    /\ mainPc' = "l86"
    /\ UNCHANGED <<regVars, callVars, histVars, udpVars, tcpVars, fs, srcOfPath, saveVars, cfg, regIdx, loadRes,
                   savePc, nadds, nboots, nsaves>>

\* p.wg.Wait() of line 86 returns once the goroutine of Start, the only one
\* added to p.wg (line 65), has run its deferred wg.Done()
WaitSkipped(pc) == TRUE
WaitsForever(pc) == FALSE
WgWaitReturns(pc) == pc = "exited"

\* Persistence.Stop lines 86-88: wg.Wait() returns, Stop calls Save
StopWaited ==
    /\ mainPc = "l86"
    /\ WgWaitReturns(savePc)
    /\ mainPc' = "l88"
    /\ spc' = "l46"
    /\ saveBy' = "main"
    /\ saveErr' = FALSE
    /\ prevFile' = fs[DataFile]
    /\ UNCHANGED <<regVars, callVars, histVars, udpVars, tcpVars, fs, srcOfPath, saveNames, saveField, saveEnc,
                   saveData, cfg, regIdx, loadRes, pstopCh, savePc, nadds, nboots, nsaves>>

\* Persistence.Stop lines 88-93 and main line 120: the final Save returned
StopSaved ==
    /\ mainPc = "l88"
    /\ spc = "ret"
    /\ SaveReturns
    /\ mainPc' = "done"
    /\ held' = [ok |-> ~saveErr, vals |-> EmptyStats]
    /\ UNCHANGED <<regVars, callVars, udpVars, tcpVars, fs, srcOfPath, saveNames, saveField,
                   cfg, regIdx, loadRes, pstopCh, savePc, nadds, nboots, nsaves>>

\* main returns: the process and all its goroutines are gone
Exit ==
    /\ mainPc = "done"
    /\ ProcessGone
    /\ held' = [held EXCEPT !.vals = IF held.ok THEN stats ELSE EmptyStats]
    /\ UNCHANGED <<clock, callVars, udpVars, tcpVars, fs, srcOfPath, cfg, nadds, nboots>>

\* ---------------------------------------------------------------- TCPProxy
\* The relay of the proxy TheName. A client connection is "none" (not made),
\* "queued" (established, waiting in the listener's backlog), "reset" (dropped
\* with the listener), or its handleConn is at l90 (before IsLimitExceeded),
\* l118 (between IsLimitExceeded's two loads), l95 (before net.Dial), l119
\* (wg.Wait for the two copy tasks) or "done" (returned).
MaxConns == 2       \* client connections made to the relay
MaxReads == 2       \* reads of the copy tasks that return data

Conns == 1..MaxConns
Dirs == {"up", "down"}

NoConn ==
    [st |-> "none", gate |-> "none", tu |-> 0, dialed |-> FALSE, srcOpen |-> FALSE,
     dstOpen |-> FALSE, srcFin |-> FALSE, dstFin |-> FALSE, forwarded |-> 0,
     counted |-> 0]
\* fwd and cnt are history: the bytes this copy task wrote and the bytes it added
NoCopy ==
    [pc |-> "none", n |-> 0, written |-> 0, werr |-> FALSE, fwd |-> 0, cnt |-> 0]

NoRelay ==
    /\ tstopCh = FALSE
    /\ listener = "nil"
    /\ acceptPc = "none"
    /\ conn = [c \in Conns |-> NoConn]
    /\ cp = [k \in Conns \X Dirs |-> NoCopy]

\* main lines 50 and 59-65: Register the proxy, NewTCPProxy and Start (lines
\* 40-52 of tcp.go): the listener is bound and the accept loop spawned.
RegisterAndStart ==
    /\ mainPc = "register"
    /\ regIdx <= Len(Proxies)
    /\ LET p == Proxies[regIdx]
       IN  /\ stats' = Register(stats, p.name, p.protocol, p.listenPort, p.targetPort, p.limit)
           /\ IF p.name = TheName /\ p.protocol \in {"tcp", "both"}
              THEN listener' = "open" /\ acceptPc' = "l66"
              ELSE UNCHANGED <<listener, acceptPc>>
    /\ regIdx' = regIdx + 1
    /\ UNCHANGED <<clock, callVars, histVars, udpVars, fs, srcOfPath, saveVars, mainPc, cfg, loadRes,
                   pstopCh, savePc, nadds, nboots, nsaves, tstopCh, conn, cp>>

\* A client connects to the listening port (connections are numbered in the
\* order they are made).
ClientConnect(c) ==
    /\ listener = "open"
    /\ conn[c].st = "none"
    /\ IF c = 1 THEN TRUE ELSE conn[c - 1].st # "none"
    /\ conn' = [conn EXCEPT ![c].st = "queued"]
    /\ UNCHANGED <<regVars, callVars, histVars, udpVars, persistVars, tstopCh, listener, acceptPc, cp>>

\* acceptLoop lines 66-70: the non-blocking look at stopCh
AcceptSelect ==
    /\ acceptPc = "l66"
    /\ acceptPc' = IF tstopCh THEN "exited" ELSE "l72"
    /\ UNCHANGED <<regVars, callVars, histVars, udpVars, persistVars, tstopCh, listener, conn, cp>>

\* acceptLoop lines 72 and 84: Accept returns a connection, `go p.handleConn`
\* (the handler is not added to p.wg)
AcceptConn(c) ==
    /\ acceptPc = "l72"
    /\ listener = "open"
    /\ conn[c].st = "queued"
    /\ conn' = [conn EXCEPT ![c].st = "l90", ![c].srcOpen = TRUE]
    /\ acceptPc' = "l66"
    /\ UNCHANGED <<regVars, callVars, histVars, udpVars, persistVars, tstopCh, listener, cp>>

\* acceptLoop lines 72-81: Accept returns an error (the listener is closed, or
\* a passing failure): return when stopCh is closed, else log and continue
AcceptError ==
    /\ acceptPc = "l72"
    /\ acceptPc' = IF tstopCh THEN "exited" ELSE "l66"
    /\ UNCHANGED <<regVars, callVars, histVars, udpVars, persistVars, tstopCh, listener, conn, cp>>

\* handleConn line 90, IsLimitExceeded lines 115-118: Limit <= 0 answers false;
\* otherwise TotalUpload is loaded. gate keeps whether the limit was reached
\* at this moment, the start of the handler's check.
CheckLimit(c) ==
    /\ conn[c].st = "l90"
    /\ LET s == stats[TheName]
       IN  conn' = [conn EXCEPT ![c].gate =
                                   IF s.Limit > 0 /\ s.TotalUpload + s.TotalDownload >= s.Limit
                                   THEN "reached" ELSE "below",
                                ![c].tu = IF s.Limit <= 0 THEN 0 ELSE s.TotalUpload,
                                ![c].st = IF s.Limit <= 0 THEN "l95" ELSE "l118"]
    /\ UNCHANGED <<regVars, callVars, histVars, udpVars, persistVars, tstopCh, listener, acceptPc, cp>>

\* IsLimitExceeded lines 118-119 and handleConn lines 90-93: TotalDownload is
\* loaded and the sum compared; when exceeded the handler returns and the
\* deferred src.Close() runs.
CheckTotal(c) ==
    /\ conn[c].st = "l118"
    /\ LET s == stats[TheName]
       IN  IF LimitExceededOn(s.Limit, conn[c].tu, s.TotalDownload)
           THEN conn' = [conn EXCEPT ![c].st = "done", ![c].tu = 0, ![c].srcOpen = FALSE]
           ELSE conn' = [conn EXCEPT ![c].st = "l95", ![c].tu = 0]
    /\ UNCHANGED <<regVars, callVars, histVars, udpVars, persistVars, tstopCh, listener, acceptPc, cp>>

\* handleConn lines 95-113: net.Dial; on failure the handler returns (src is
\* closed); on success the two copy tasks start.
Dial(c) ==
    /\ conn[c].st = "l95"
    /\ \/ /\ conn' = [conn EXCEPT ![c].st = "done", ![c].srcOpen = FALSE]
          /\ cp' = cp
       \/ /\ conn' = [conn EXCEPT ![c].st = "l119", ![c].dialed = TRUE,
                                     ![c].dstOpen = TRUE]
          /\ cp' = [cp EXCEPT ![<<c, "up">>].pc = "read", ![<<c, "down">>].pc = "read"]
    /\ UNCHANGED <<regVars, callVars, histVars, udpVars, persistVars, tstopCh, listener, acceptPc>>

\* copy line 128: src.Read returns n > 0 bytes, or a readErr (io.EOF or other)
\* with n = 0, after which copy returns (lines 142-147)
CopyRead(c, d) ==
    /\ cp[<<c, d>>].pc = "read"
    /\ \/ /\ nadds < MaxReads
          /\ nadds' = nadds + 1
          /\ \E n \in Amounts :
                cp' = [cp EXCEPT ![<<c, d>>].pc = "write", ![<<c, d>>].n = n]
       \/ /\ cp' = [cp EXCEPT ![<<c, d>>].pc = "closeWrite"]
          /\ nadds' = nadds
    /\ UNCHANGED <<regVars, callVars, histVars, udpVars, fs, srcOfPath, saveVars, mainPc, cfg, regIdx,
                   loadRes, pstopCh, savePc, nboots, nsaves, tstopCh, listener,
                   acceptPc, conn>>

\* copy line 130: dst.Write writes all n bytes, or fewer with a writeErr
CopyWrite(c, d) ==
    /\ cp[<<c, d>>].pc = "write"
    /\ \E written \in 0..cp[<<c, d>>].n :
          /\ cp' = [cp EXCEPT ![<<c, d>>].written = written,
                              ![<<c, d>>].werr = (written < cp[<<c, d>>].n),
                              ![<<c, d>>].fwd = @ + written,
                              ![<<c, d>>].pc = IF written > 0 THEN "add" ELSE "closeWrite"]
          /\ conn' = [conn EXCEPT ![c].forwarded = @ + written]
    /\ UNCHANGED <<regVars, callVars, histVars, udpVars, persistVars, tstopCh, listener, acceptPc>>

\* copy lines 133 and 135: the amount handed to AddUpload / AddDownload
AttributedRead(n, written) == n
Attributed(n, written) == written

\* copy lines 131-140: written > 0 is added to the counter (the call as one
\* step); a writeErr ends the copy
CopyAdd(c, d) ==
    /\ cp[<<c, d>>].pc = "add"
    /\ LET amount == Attributed(cp[<<c, d>>].n, cp[<<c, d>>].written)
       IN  /\ stats' = [stats EXCEPT ![TheName] =
                           IF d = "up" THEN AddUpload(@, amount, currentMonth)
                           ELSE AddDownload(@, amount, currentMonth)]
           /\ conn' = [conn EXCEPT ![c].counted = @ + amount]
           /\ cp' = [cp EXCEPT ![<<c, d>>].pc = IF cp[<<c, d>>].werr THEN "closeWrite" ELSE "read",
                               ![<<c, d>>].n = 0, ![<<c, d>>].written = 0,
                               ![<<c, d>>].cnt = @ + amount]
    /\ UNCHANGED <<clock, callVars, histVars, udpVars, persistVars, tstopCh, listener, acceptPc>>

\* handleConn lines 105 and 112: CloseWrite on the socket the direction d
\* writes to; its peer will read end of stream (srcFin, dstFin)
NoCloseWrite(r, d) == r
CloseWrite(r, d) ==
    IF d = "up" THEN [r EXCEPT !.dstFin = TRUE] ELSE [r EXCEPT !.srcFin = TRUE]

\* handleConn lines 104-105 and 111-112: copy returned, CloseWrite on the
\* socket written to, wg.Done
CopyReturns(c, d) ==
    /\ cp[<<c, d>>].pc = "closeWrite"
    /\ cp' = [cp EXCEPT ![<<c, d>>].pc = "done"]
    /\ conn' = [conn EXCEPT ![c] = CloseWrite(@, d)]
    /\ UNCHANGED <<regVars, callVars, histVars, udpVars, persistVars, tstopCh, listener, acceptPc>>

\* handleConn line 119: wg.Wait returns, the deferred dst.Close and src.Close
HandlerReturns(c) ==
    /\ conn[c].st = "l119"
    /\ \A d \in Dirs : cp[<<c, d>>].pc = "done"
    /\ conn' = [conn EXCEPT ![c].st = "done", ![c].srcOpen = FALSE, ![c].dstOpen = FALSE]
    /\ UNCHANGED <<regVars, callVars, histVars, udpVars, persistVars, tstopCh, listener, acceptPc, cp>>

\* main line 115 calls Stop; TCPProxy.Stop line 55: close(p.stopCh)
TStopClose ==
    /\ mainPc = "stopRelays"
    /\ tstopCh' = TRUE
    /\ mainPc' = "l56"
    /\ UNCHANGED <<regVars, callVars, histVars, udpVars, fs, srcOfPath, saveVars, cfg, regIdx, loadRes,
                   pstopCh, savePc, nadds, nboots, nsaves, listener, acceptPc, conn, cp>>

\* TCPProxy.Stop lines 56-58: the listener is closed; connections still in its
\* backlog are dropped
TStopListener ==
    /\ mainPc = "l56"
    /\ listener' = IF listener = "nil" THEN "nil" ELSE "closed"
    /\ conn' = [c \in Conns |->
                  IF conn[c].st = "queued" THEN [conn[c] EXCEPT !.st = "reset"] ELSE conn[c]]
    /\ mainPc' = "l59"
    /\ UNCHANGED <<regVars, callVars, histVars, udpVars, fs, srcOfPath, saveVars, cfg, regIdx, loadRes,
                   pstopCh, savePc, nadds, nboots, nsaves, tstopCh, acceptPc, cp>>

\* TCPProxy.Stop line 59: p.wg.Wait() returns when the accept loop, the only
\* goroutine added to p.wg (line 49), has returned; Stop returns to main, which
\* goes on to persistence.Stop (line 118)
TStopWaited ==
    /\ mainPc = "l59"
    /\ acceptPc = "exited"
    /\ mainPc' = "l85"
    /\ UNCHANGED <<regVars, callVars, histVars, udpVars, fs, srcOfPath, saveVars, cfg, regIdx, loadRes,
                   pstopCh, savePc, nadds, nboots, nsaves, tcpVars>>

\* ---------------------------------------------------------------- UDPProxy
\* The UDP relay of the proxy TheName, with time counted in ticks of
\* cleanupInterval (30 s): udpTimeout (60 s) is two ticks. The 1 s deadline of
\* the read loop is shorter than a tick.
MaxTime == 5        \* the time runs over 0..MaxTime
MaxDatagrams == 2   \* datagrams the clients send
MaxReplies == 1     \* datagrams the upstream target sends
udpTimeout == 2
cleanupInterval == 1

Addrs == {"A", "B"}
\* A session is numbered by the order of its creation.
Sessions == 1..MaxDatagrams

NoSession ==
    [made |-> FALSE, addr |-> "", open |-> FALSE, lastActive |-> 0, rpc |-> "none",
     deadline |-> 0, inq |-> 0, n |-> 0, la |-> 0]
NoDatagram == [pc |-> "none", addr |-> "", n |-> 0, client |-> 0, over |-> FALSE]

NoUdp ==
    /\ unow = 0
    /\ ustopCh = FALSE
    /\ ulistener = "nil"
    /\ inbox = <<>>
    /\ rl = NoDatagram
    /\ clients = [a \in Addrs |-> 0]
    /\ clientsMu = "free"
    /\ socks = [s \in Sessions |-> NoSession]
    /\ cleaner = [pc |-> "none", next |-> 0]
    /\ ustopPc = "none"
    /\ uhist = [sent |-> 0, replies |-> 0, up |-> 0, down |-> 0,
                fwdOver |-> 0, lastFrom |-> [a \in Addrs |-> -1],
                lastBack |-> [a \in Addrs |-> -1]]

\* A client sends a datagram to the listening port ("A" names the client that
\* sends first; the datagrams have MaxAmount bytes).
ClientSend(a) ==
    /\ ulistener = "open"
    /\ uhist.sent = 0 => a = "A"
    /\ uhist.sent < MaxDatagrams
    /\ inbox' = Append(inbox, [addr |-> a, n |-> MaxAmount])
    /\ uhist' = [uhist EXCEPT !.sent = @ + 1]
    /\ UNCHANGED <<regVars, callVars, histVars, persistVars, tcpVars, clientsMu, unow, ustopCh, ulistener,
                   rl, clients, socks, cleaner, ustopPc>>

\* The upstream target sends a datagram to the session's socket.
UpstreamReply(s) ==
    /\ socks[s].open
    /\ uhist.replies < MaxReplies
    /\ socks' = [socks EXCEPT ![s].inq = @ + 1]
    /\ uhist' = [uhist EXCEPT !.replies = @ + 1]
    /\ UNCHANGED <<regVars, callVars, histVars, persistVars, tcpVars, clientsMu, unow, ustopCh, ulistener,
                   inbox, rl, clients, cleaner, ustopPc>>

\* readLoop lines 93-97: the non-blocking look at stopCh
ReadSelect ==
    /\ rl.pc = "l93"
    /\ rl' = [rl EXCEPT !.pc = IF ustopCh THEN "exited" ELSE "l100"]
    /\ UNCHANGED <<regVars, callVars, histVars, persistVars, tcpVars, clientsMu, unow, ustopCh, ulistener,
                   inbox, clients, socks, cleaner, ustopPc, uhist>>

\* readLoop lines 99-100: ReadFromUDP returns a datagram. The history keeps
\* the time of the client's datagram and whether the limit was exceeded then.
ReadDatagram ==
    /\ rl.pc = "l100"
    /\ ulistener = "open"
    /\ inbox # <<>>
    /\ LET d == Head(inbox)
           s == stats[TheName]
       IN  /\ rl' = [pc |-> "l114", addr |-> d.addr, n |-> d.n, client |-> 0,
                     over |-> (s.Limit > 0 /\ s.TotalUpload + s.TotalDownload >= s.Limit)]
           /\ uhist' = [uhist EXCEPT !.up = @ + d.n, !.lastFrom[d.addr] = unow]
    /\ inbox' = Tail(inbox)
    /\ UNCHANGED <<regVars, callVars, histVars, persistVars, tcpVars, clientsMu, unow, ustopCh, ulistener,
                   clients, socks, cleaner, ustopPc>>

\* readLoop lines 100-112: ReadFromUDP returns an error: the 1 s deadline
\* (continue), or the closed listener (return when stopCh is closed)
ReadError ==
    /\ rl.pc = "l100"
    /\ \/ ulistener = "open" /\ inbox = <<>> /\ rl' = [rl EXCEPT !.pc = "l93"]
       \/ ulistener = "closed" /\ rl' = [rl EXCEPT !.pc = IF ustopCh THEN "exited" ELSE "l93"]
    /\ UNCHANGED <<regVars, callVars, histVars, persistVars, tcpVars, clientsMu, unow, ustopCh, ulistener,
                   inbox, clients, socks, cleaner, ustopPc, uhist>>

\* readLoop line 114: AddUpload(n) (the call as one step)
ReadAddUpload ==
    /\ rl.pc = "l114"
    /\ stats' = [stats EXCEPT ![TheName] = AddUpload(@, rl.n, currentMonth)]
    /\ rl' = [rl EXCEPT !.pc = "l132"]
    /\ UNCHANGED <<clock, callVars, histVars, persistVars, tcpVars, clientsMu, unow, ustopCh, ulistener,
                   inbox, clients, socks, cleaner, ustopPc, uhist>>

\* getOrCreateClient lines 133 and 144: `client, exists := p.clients[key]`
AlwaysAbsent(m, key) == 0
LookupSession(m, key) == m[key]

\* getOrCreateClient lines 130-138: the lookup under the read lock
LookupClient ==
    /\ rl.pc = "l132"
    /\ clientsMu = "free"
    /\ rl' = IF LookupSession(clients, rl.addr) # 0
             THEN [rl EXCEPT !.pc = "l121", !.client = LookupSession(clients, rl.addr)]
             ELSE [rl EXCEPT !.pc = "l140"]
    /\ UNCHANGED <<regVars, callVars, histVars, persistVars, tcpVars, clientsMu, unow, ustopCh, ulistener,
                   inbox, clients, socks, cleaner, ustopPc, uhist>>

\* lines 184 and 241: a session last active at `last` is idle at `now`
NeverIdle(now, last) == FALSE
Idle(now, last) == now - last > udpTimeout

\* the session the next successful DialUDP makes
NewSession == CHOOSE s \in Sessions : ~socks[s].made /\ \A t \in Sessions : t < s => socks[t].made

\* getOrCreateClient lines 140-141: p.clientsMu.Lock(), released by the
\* deferred Unlock when the function returns
LockClients ==
    /\ rl.pc = "l140"
    /\ clientsMu = "free"
    /\ clientsMu' = "readLoop"
    /\ rl' = [rl EXCEPT !.pc = "l144"]
    /\ UNCHANGED <<regVars, callVars, histVars, persistVars, tcpVars, unow, ustopCh, ulistener,
                   inbox, clients, socks, cleaner, ustopPc, uhist>>

\* getOrCreateClient lines 143-164, under the write lock: the second lookup,
\* then DialUDP; on success the session is stored and its reader spawned
CreateClient ==
    /\ rl.pc = "l144"
    /\ clientsMu' = "free"
    /\ IF LookupSession(clients, rl.addr) # 0
       THEN /\ rl' = [rl EXCEPT !.pc = "l121", !.client = LookupSession(clients, rl.addr)]
            /\ UNCHANGED <<clients, socks>>
       ELSE \/ /\ rl' = [NoDatagram EXCEPT !.pc = "l93"]      \* lines 149-152, 117-119
               /\ UNCHANGED <<clients, socks>>
            \/ /\ \E s \in Sessions : ~socks[s].made
               /\ socks' = [socks EXCEPT ![NewSession] =
                              [NoSession EXCEPT !.made = TRUE, !.addr = rl.addr, !.open = TRUE,
                                                !.lastActive = unow, !.rpc = "l170"]]
               /\ clients' = [clients EXCEPT ![rl.addr] = NewSession]
               /\ rl' = [rl EXCEPT !.pc = "l121", !.client = NewSession]
    /\ UNCHANGED <<regVars, callVars, histVars, persistVars, tcpVars, unow, ustopCh, ulistener,
                   inbox, cleaner, ustopPc, uhist>>

\* readLoop line 121: client.lastActive = time.Now(), without the lock
ReadSetActive ==
    /\ rl.pc = "l121"
    /\ socks' = [socks EXCEPT ![rl.client].lastActive = unow]
    /\ rl' = [rl EXCEPT !.pc = "l122"]
    /\ UNCHANGED <<regVars, callVars, histVars, persistVars, tcpVars, clientsMu, unow, ustopCh, ulistener,
                   inbox, clients, cleaner, ustopPc, uhist>>

\* readLoop lines 122-125: the datagram is written to the session's socket
\* (an error, as on a closed socket, is logged)
ReadForward ==
    /\ rl.pc = "l122"
    /\ uhist' = IF socks[rl.client].open
                THEN [uhist EXCEPT !.fwdOver = IF rl.over THEN @ + 1 ELSE @]
                ELSE uhist
    /\ rl' = [NoDatagram EXCEPT !.pc = "l93"]
    /\ UNCHANGED <<regVars, callVars, histVars, persistVars, tcpVars, clientsMu, unow, ustopCh, ulistener,
                   inbox, clients, socks, cleaner, ustopPc>>

\* removeClient lines 209-217, under the write lock: the session stored under
\* key, if any, is closed and deleted
removeClientSocks(m, sk, key) ==
    IF m[key] # 0 THEN [sk EXCEPT ![m[key]].open = FALSE, ![m[key]].inq = 0] ELSE sk
removeClient(m, key) == [m EXCEPT ![key] = 0]

\* readFromTarget lines 170-176: the look at stopCh, then SetReadDeadline
ReaderSelect(s) ==
    /\ socks[s].rpc = "l170"
    /\ socks' = IF ustopCh
                THEN [socks EXCEPT ![s].rpc = "exited"]
                ELSE [socks EXCEPT ![s].rpc = "l177", ![s].deadline = unow + udpTimeout]
    /\ UNCHANGED <<regVars, callVars, histVars, persistVars, tcpVars, clientsMu, unow, ustopCh, ulistener,
                   inbox, rl, clients, cleaner, ustopPc, uhist>>

\* readFromTarget line 177: Read returns a datagram of the upstream target
\* (the history keeps the time)
ReaderData(s) ==
    /\ socks[s].rpc = "l177"
    /\ socks[s].open
    /\ socks[s].inq > 0
    /\ \E n \in Amounts :
          /\ socks' = [socks EXCEPT ![s].rpc = "l199", ![s].n = n, ![s].inq = @ - 1]
          /\ uhist' = [uhist EXCEPT !.down = @ + n, !.lastBack[socks[s].addr] = unow]
    /\ UNCHANGED <<regVars, callVars, histVars, persistVars, tcpVars, clientsMu, unow, ustopCh, ulistener,
                   inbox, rl, clients, cleaner, ustopPc>>

\* readFromTarget lines 177-182: Read returns a timeout at the deadline; the
\* reader takes lastActive under the read lock
ReaderTimeout(s) ==
    /\ socks[s].rpc = "l177"
    /\ socks[s].open
    /\ clientsMu = "free"
    /\ unow >= socks[s].deadline
    /\ socks' = [socks EXCEPT ![s].rpc = "l184", ![s].la = socks[s].lastActive]
    /\ UNCHANGED <<regVars, callVars, histVars, persistVars, tcpVars, clientsMu, unow, ustopCh, ulistener,
                   inbox, rl, clients, cleaner, ustopPc, uhist>>

\* readFromTarget lines 184-188: an idle session is removed by its key
ReaderExpire(s) ==
    /\ socks[s].rpc = "l184"
    /\ IF Idle(unow, socks[s].la)
       THEN /\ clientsMu = "free"
            /\ socks' = [removeClientSocks(clients, socks, socks[s].addr)
                           EXCEPT ![s].rpc = "exited", ![s].la = 0]
            /\ clients' = removeClient(clients, socks[s].addr)
       ELSE /\ socks' = [socks EXCEPT ![s].rpc = "l170", ![s].la = 0]
            /\ clients' = clients
    /\ UNCHANGED <<regVars, callVars, histVars, persistVars, tcpVars, clientsMu, unow, ustopCh, ulistener,
                   inbox, rl, cleaner, ustopPc, uhist>>

\* readFromTarget lines 177-196: Read fails on the closed socket: return when
\* stopCh is closed, else removeClient(key) and return
ReaderError(s) ==
    /\ socks[s].rpc = "l177"
    /\ ~socks[s].open
    /\ IF ustopCh
       THEN /\ socks' = [socks EXCEPT ![s].rpc = "exited"]
            /\ clients' = clients
       ELSE /\ clientsMu = "free"
            /\ socks' = [removeClientSocks(clients, socks, socks[s].addr)
                           EXCEPT ![s].rpc = "exited"]
            /\ clients' = removeClient(clients, socks[s].addr)
    /\ UNCHANGED <<regVars, callVars, histVars, persistVars, tcpVars, clientsMu, unow, ustopCh, ulistener,
                   inbox, rl, cleaner, ustopPc, uhist>>

\* readFromTarget line 199: AddDownload(n) (the call as one step)
ReaderAddDownload(s) ==
    /\ socks[s].rpc = "l199"
    /\ stats' = [stats EXCEPT ![TheName] = AddDownload(@, socks[s].n, currentMonth)]
    /\ socks' = [socks EXCEPT ![s].rpc = "l200"]
    /\ UNCHANGED <<clock, callVars, histVars, persistVars, tcpVars, clientsMu, unow, ustopCh, ulistener,
                   inbox, rl, clients, cleaner, ustopPc, uhist>>

\* readFromTarget lines 200-205: client.lastActive = time.Now(), without the
\* lock, and the datagram is written to the client
ReaderForward(s) ==
    /\ socks[s].rpc = "l200"
    /\ socks' = [socks EXCEPT ![s].rpc = "l170", ![s].lastActive = unow, ![s].n = 0]
    /\ UNCHANGED <<regVars, callVars, histVars, persistVars, tcpVars, clientsMu, unow, ustopCh, ulistener,
                   inbox, rl, clients, cleaner, ustopPc, uhist>>

\* the sessions cleanupStaleClients finds idle (line 241)
Stale == { a \in Addrs : clients[a] # 0 /\ Idle(unow, socks[clients[a]].lastActive) }

\* cleanupLoop lines 229-230 and cleanupStaleClients lines 235-246, under the
\* write lock: the ticker fires, every idle session is closed and deleted
CleanupTick ==
    /\ cleaner.pc = "select"
    /\ unow >= cleaner.next
    /\ clientsMu = "free"
    /\ socks' = [s \in Sessions |->
                   IF \E a \in Stale : clients[a] = s
                   THEN [socks[s] EXCEPT !.open = FALSE, !.inq = 0]
                   ELSE socks[s]]
    /\ clients' = [a \in Addrs |-> IF a \in Stale THEN 0 ELSE clients[a]]
    /\ cleaner' = [cleaner EXCEPT !.next = @ + cleanupInterval]
    /\ UNCHANGED <<regVars, callVars, histVars, persistVars, tcpVars, clientsMu, unow, ustopCh, ulistener,
                   inbox, rl, ustopPc, uhist>>

\* cleanupLoop lines 227-228: stopCh is closed, the loop returns
CleanupStops ==
    /\ cleaner.pc = "select"
    /\ ustopCh
    /\ cleaner' = [cleaner EXCEPT !.pc = "exited"]
    /\ UNCHANGED <<regVars, callVars, histVars, persistVars, tcpVars, clientsMu, unow, ustopCh, ulistener,
                   inbox, rl, clients, socks, ustopPc, uhist>>

\* UDPProxy.Stop line 74: close(p.stopCh)
UStopClose ==
    /\ ustopPc = "run"
    /\ ustopCh' = TRUE
    /\ ustopPc' = "l75"
    /\ UNCHANGED <<regVars, callVars, histVars, persistVars, tcpVars, clientsMu, unow, ulistener, inbox, rl,
                   clients, socks, cleaner, uhist>>

\* UDPProxy.Stop lines 75-77: the listener is closed
UStopListener ==
    /\ ustopPc = "l75"
    /\ ulistener' = "closed"
    /\ inbox' = <<>>
    /\ ustopPc' = "l79"
    /\ UNCHANGED <<regVars, callVars, histVars, persistVars, tcpVars, clientsMu, unow, ustopCh, rl, clients,
                   socks, cleaner, uhist>>

\* UDPProxy.Stop lines 79-83, under the write lock: the socket of every
\* session in the map is closed (the entries stay)
UStopSessions ==
    /\ ustopPc = "l79"
    /\ clientsMu = "free"
    /\ socks' = [s \in Sessions |->
                   IF \E a \in Addrs : clients[a] = s
                   THEN [socks[s] EXCEPT !.open = FALSE, !.inq = 0]
                   ELSE socks[s]]
    /\ ustopPc' = "l85"
    /\ UNCHANGED <<regVars, callVars, histVars, persistVars, tcpVars, clientsMu, unow, ustopCh, ulistener,
                   inbox, rl, clients, cleaner, uhist>>

\* UDPProxy.Stop line 85: p.wg.Wait() returns when the read loop and the
\* cleanup loop, the two goroutines added to p.wg (line 66), have returned
UStopWaited ==
    /\ ustopPc = "l85"
    /\ rl.pc = "exited"
    /\ cleaner.pc = "exited"
    /\ ustopPc' = "returned"
    /\ UNCHANGED <<regVars, callVars, histVars, persistVars, tcpVars, clientsMu, unow, ustopCh, ulistener,
                   inbox, rl, clients, socks, cleaner, uhist>>

\* A goroutine is waiting: for a datagram or a deadline, for the ticker, for
\* the wait group. Every other step takes no time on the scale of a tick.
ReadLoopWaits == rl.pc = "exited" \/ (rl.pc = "l100" /\ ulistener = "open" /\ inbox = <<>>)
ReaderWaits(s) ==
    \/ socks[s].rpc \in {"none", "exited"}
    \/ socks[s].rpc = "l177" /\ socks[s].open /\ socks[s].inq = 0 /\ unow < socks[s].deadline
CleanerWaits == cleaner.pc = "exited" \/ (~ustopCh /\ unow < cleaner.next)
StopWaits ==
    \/ ustopPc \in {"run", "returned"}
    \/ ustopPc = "l85" /\ ~(rl.pc = "exited" /\ cleaner.pc = "exited")

\* A tick of time passes while every goroutine waits.
UTick ==
    /\ unow < MaxTime
    /\ ReadLoopWaits
    /\ \A s \in Sessions : ReaderWaits(s)
    /\ CleanerWaits
    /\ StopWaits
    /\ unow' = unow + 1
    /\ UNCHANGED <<regVars, callVars, histVars, persistVars, tcpVars, clientsMu, ustopCh, ulistener, inbox, rl,
                   clients, socks, cleaner, ustopPc, uhist>>

IdleCalls ==
    /\ wpc = [w \in {} |-> "idle"]
    /\ wcall = [w \in {} |-> NoCall]
    /\ sumUp = 0
    /\ sumDown = 0
    /\ zeroStores = [m \in MonthTags |-> 0]
    /\ ncalls = 0
    /\ returned = 0

\* The locals of a process that has not started its work
FreshProcess ==
    /\ regIdx = 1
    /\ loadRes = "none"
    /\ pstopCh = FALSE
    /\ savePc = "none"
    /\ spc = "idle"
    /\ saveBy = "none"
    /\ saveNames = <<>>
    /\ saveField = 1
    /\ saveEnc = EmptyStats
    /\ saveData = <<>>
    /\ saveErr = FALSE
    /\ prevFile = NoFile
    /\ nadds = 0
    /\ nsaves = 0
    /\ srcOfPath = EmptyStats
    /\ held = NoHeld

NoProcess ==
    /\ mainPc = "dead"
    /\ cfg = 1
    /\ nboots = 0
    /\ FreshProcess

\* No process yet, no state file.
InitPersist ==
    /\ clock = 1
    /\ stats = EmptyStats
    /\ fs = [f \in {DataFile, TmpFile} |-> NoFile]
    /\ NoProcess
    /\ IdleCalls
    /\ NoRelay
    /\ NoUdp

NextPersist ==
    \/ Restart
    \/ Crash
    \/ Load
    \/ RegisterNext
    \/ StartPersistence
    \/ RelayAdd
    \/ SaverTick
    \/ SaveSnapshot
    \/ MarshalRead
    \/ WriteOpen
    \/ WriteOpenFails
    \/ WriteChunk
    \/ WriteFails
    \/ Rename
    \/ RenameFails
    \/ SaverSaved
    \/ SaverStops
    \/ Signal
    \/ RelaysStopped
    \/ StopClose
    \/ StopWaited
    \/ StopSaved
    \/ Exit

SpecPersist == InitPersist /\ [][NextPersist]_vars

\* ------------------------------------------------- the start of a process
\* What a process may find at cfg.DataFile when it starts: nothing, the file an
\* earlier process saved, or a file cut short or emptied behind the program's
\* back (a disk that filled up, an editor, a copy that was interrupted).
StoredRegistries ==
    { (TheName :> [NewProxyStats(TheName, "tcp", 19001, 19002, 2)
                     EXCEPT !.TotalUpload = up, !.MonthlyUpload = up]) :
        up \in 0..MaxAmount }
StoredFiles ==
    UNION { { SubSeq(Marshal(m), 1, k) : k \in 0..Len(Marshal(m)) } : m \in StoredRegistries }

InitLoad ==
    /\ clock = 1
    /\ stats = EmptyStats
    /\ \E f \in {NoFile} \cup { [exists |-> TRUE, data |-> d] : d \in StoredFiles } :
          fs = [n \in {DataFile, TmpFile} |-> IF n = DataFile THEN f ELSE NoFile]
    /\ NoProcess
    /\ IdleCalls
    /\ NoRelay
    /\ NoUdp

\* main from its start to the running relays
NextLoad ==
    \/ Restart
    \/ Load
    \/ RegisterNext
    \/ StartPersistence
    \/ RelayAdd

SpecLoad == InitLoad /\ [][NextLoad]_vars

\* The relay process from its start to main's return.
Next ==
    \/ Load
    \/ RegisterAndStart
    \/ StartPersistence
    \/ \E c \in Conns : ClientConnect(c)
    \/ AcceptSelect
    \/ \E c \in Conns : AcceptConn(c)
    \/ AcceptError
    \/ \E c \in Conns : CheckLimit(c)
    \/ \E c \in Conns : CheckTotal(c)
    \/ \E c \in Conns : Dial(c)
    \/ \E c \in Conns, d \in Dirs : CopyRead(c, d)
    \/ \E c \in Conns, d \in Dirs : CopyWrite(c, d)
    \/ \E c \in Conns, d \in Dirs : CopyAdd(c, d)
    \/ \E c \in Conns, d \in Dirs : CopyReturns(c, d)
    \/ \E c \in Conns : HandlerReturns(c)
    \/ Signal
    \/ TStopClose
    \/ TStopListener
    \/ TStopWaited
    \/ StopClose
    \/ SaverStops
    \/ StopWaited
    \/ SaveSnapshot
    \/ MarshalRead
    \/ WriteOpen
    \/ WriteChunk
    \/ Rename
    \/ StopSaved

\* main has read the first configuration and is about to load the state
\* file; there is none yet.
Init ==
    /\ clock = 1
    /\ stats = EmptyStats
    /\ fs = [f \in {DataFile, TmpFile} |-> NoFile]
    /\ mainPc = "load"
    /\ cfg = 1
    /\ nboots = 1
    /\ FreshProcess
    /\ IdleCalls
    /\ NoRelay
    /\ NoUdp
Spec == Init /\ [][Next]_vars

\* Limits a configuration can give: ParseBytes yields 0 for "" and "0", a
\* positive count otherwise, and int64(value) of a float beyond the int64
\* range is implementation-defined (negative on amd64).
ConfigLimits == {-1, 0, 2}

\* --------------------------------------------- the TCP relay's specification
\* main has registered the proxy of the first configuration and TCPProxy.Start
\* has returned; the relay serves connections (no signal arrives).
InitRelay ==
    /\ clock = 1
    /\ LET p == Configs[1][1]
       IN  stats = Register(EmptyStats, p.name, p.protocol, p.listenPort, p.targetPort, p.limit)
    /\ fs = [f \in {DataFile, TmpFile} |-> NoFile]
    /\ mainPc = "run"
    /\ cfg = 1
    /\ nboots = 1
    /\ FreshProcess
    /\ IdleCalls
    /\ tstopCh = FALSE
    /\ listener = "open"
    /\ acceptPc = "l66"
    /\ conn = [c \in Conns |-> NoConn]
    /\ cp = [k \in Conns \X Dirs |-> NoCopy]
    /\ NoUdp

NextRelay ==
    \/ \E c \in Conns : ClientConnect(c)
    \/ AcceptSelect
    \/ \E c \in Conns : AcceptConn(c)
    \/ AcceptError
    \/ \E c \in Conns : CheckLimit(c)
    \/ \E c \in Conns : CheckTotal(c)
    \/ \E c \in Conns : Dial(c)
    \/ \E c \in Conns, d \in Dirs : CopyRead(c, d)
    \/ \E c \in Conns, d \in Dirs : CopyWrite(c, d)
    \/ \E c \in Conns, d \in Dirs : CopyAdd(c, d)
    \/ \E c \in Conns, d \in Dirs : CopyReturns(c, d)
    \/ \E c \in Conns : HandlerReturns(c)

\* A goroutine that can take a step that does not wait for a peer (the
\* return of copy with its CloseWrite, the return of handleConn) takes it:
\* the Go scheduler runs every runnable goroutine.
FairRelay ==
    /\ \A c \in Conns, d \in Dirs : WF_vars(CopyReturns(c, d))
    /\ \A c \in Conns : WF_vars(HandlerReturns(c))

SpecRelay == InitRelay /\ [][NextRelay]_vars /\ FairRelay

\* The TCP relay of a proxy with a positive limit while the months go by.
NextGate ==
    \/ Tick
    \/ \E c \in Conns : ClientConnect(c)
    \/ AcceptSelect
    \/ \E c \in Conns : AcceptConn(c)
    \/ AcceptError
    \/ \E c \in Conns : CheckLimit(c)
    \/ \E c \in Conns : CheckTotal(c)
    \/ \E c \in Conns : Dial(c)
    \/ \E c \in Conns, d \in Dirs : CopyRead(c, d)
    \/ \E c \in Conns, d \in Dirs : CopyWrite(c, d)
    \/ \E c \in Conns, d \in Dirs : CopyAdd(c, d)
    \/ \E c \in Conns, d \in Dirs : CopyReturns(c, d)
    \/ \E c \in Conns : HandlerReturns(c)

SpecGate == InitRelay /\ [][NextGate]_vars

\* ---------------------------------------------- the UDP relay's specification
\* main has registered the proxy (limit MaxAmount: one datagram can reach it)
\* and UDPProxy.Start (lines 53-71) has returned: the socket is bound, the
\* read loop and the cleanup loop run, the ticker's first tick is one
\* cleanupInterval away.
InitUdp ==
    /\ clock = 1
    /\ stats = (TheName :> NewProxyStats(TheName, "udp", 19001, 19002, MaxAmount))
    /\ fs = [f \in {DataFile, TmpFile} |-> NoFile]
    /\ NoProcess
    /\ IdleCalls
    /\ NoRelay
    /\ unow = 0
    /\ ustopCh = FALSE
    /\ ulistener = "open"
    /\ inbox = <<>>
    /\ rl = [NoDatagram EXCEPT !.pc = "l93"]
    /\ clients = [a \in Addrs |-> 0]
    /\ clientsMu = "free"
    /\ socks = [s \in Sessions |-> NoSession]
    /\ cleaner = [pc |-> "select", next |-> cleanupInterval]
    /\ ustopPc = "run"
    /\ uhist = [sent |-> 0, replies |-> 0, up |-> 0, down |-> 0,
                fwdOver |-> 0, lastFrom |-> [a \in Addrs |-> -1],
                lastBack |-> [a \in Addrs |-> -1]]

NextUdp ==
    \/ \E a \in Addrs : ClientSend(a)
    \/ \E s \in Sessions : UpstreamReply(s)
    \/ ReadSelect
    \/ ReadDatagram
    \/ ReadError
    \/ ReadAddUpload
    \/ LookupClient
    \/ LockClients
    \/ CreateClient
    \/ ReadSetActive
    \/ ReadForward
    \/ \E s \in Sessions : ReaderSelect(s)
    \/ \E s \in Sessions : ReaderData(s)
    \/ \E s \in Sessions : ReaderTimeout(s)
    \/ \E s \in Sessions : ReaderExpire(s)
    \/ \E s \in Sessions : ReaderError(s)
    \/ \E s \in Sessions : ReaderAddDownload(s)
    \/ \E s \in Sessions : ReaderForward(s)
    \/ CleanupTick
    \/ CleanupStops
    \/ UStopClose
    \/ UStopListener
    \/ UStopSessions
    \/ UStopWaited
    \/ UTick

SpecUdp == InitUdp /\ [][NextUdp]_vars

\* ------------------------------------------------------ the three Stops
\* Either a process whose TCP relay and periodic saves run until a signal
\* makes main call TCPProxy.Stop and then Persistence.Stop (the connections
\* stay idle: a handler past its dial waits in its copy tasks' reads), or a
\* UDP relay on which Stop is called at any moment (the upstream target sends
\* nothing: the session readers, which Stop does not wait for, only time out).
InitStop ==
    \/ Init
    \/ InitUdp

NextStop ==
    \/ Load
    \/ RegisterAndStart
    \/ StartPersistence
    \/ \E c \in Conns : ClientConnect(c)
    \/ AcceptSelect
    \/ \E c \in Conns : AcceptConn(c)
    \/ AcceptError
    \/ \E c \in Conns : CheckLimit(c)
    \/ \E c \in Conns : CheckTotal(c)
    \/ \E c \in Conns : Dial(c)
    \/ SaverTick
    \/ SaveSnapshot
    \/ MarshalRead
    \/ WriteOpen
    \/ WriteOpenFails
    \/ WriteChunk
    \/ WriteFails
    \/ Rename
    \/ RenameFails
    \/ SaverSaved
    \/ SaverStops
    \/ Signal
    \/ TStopClose
    \/ TStopListener
    \/ TStopWaited
    \/ StopClose
    \/ StopWaited
    \/ StopSaved
    \/ \E a \in Addrs : ClientSend(a)
    \/ ReadSelect
    \/ ReadDatagram
    \/ ReadError
    \/ ReadAddUpload
    \/ LookupClient
    \/ LockClients
    \/ CreateClient
    \/ ReadSetActive
    \/ ReadForward
    \/ \E s \in Sessions : ReaderSelect(s)
    \/ \E s \in Sessions : ReaderTimeout(s)
    \/ \E s \in Sessions : ReaderExpire(s)
    \/ \E s \in Sessions : ReaderError(s)
    \/ CleanupTick
    \/ CleanupStops
    \/ UStopClose
    \/ UStopListener
    \/ UStopSessions
    \/ UStopWaited
    \/ UTick

\* The Go scheduler runs every runnable goroutine, and a system call on a
\* file or a closed socket returns: each goroutine that can take a step
\* takes one. The ticks, the signal, the clients and the call of
\* UDPProxy.Stop come when they come.
FairStop ==
    /\ WF_vars(AcceptSelect \/ AcceptError)
    /\ WF_vars(TStopClose \/ TStopListener \/ TStopWaited \/ StopClose \/ StopWaited \/ StopSaved)
    /\ WF_vars(SaverSaved \/ SaverStops)
    /\ WF_vars(SaveSnapshot \/ MarshalRead \/ WriteOpen \/ WriteOpenFails \/ WriteChunk
                  \/ WriteFails \/ Rename \/ RenameFails)
    /\ WF_vars(ReadSelect \/ ReadDatagram \/ ReadError \/ ReadAddUpload \/ LookupClient
                  \/ LockClients \/ CreateClient \/ ReadSetActive \/ ReadForward)
    /\ WF_vars(CleanupTick \/ CleanupStops)
    /\ WF_vars(UStopListener \/ UStopSessions \/ UStopWaited)

SpecStop == InitStop /\ [][NextStop]_vars /\ FairStop

\* ------------------------------------------ the counter's specifications
InitCounterOn(ws) ==
    /\ clock = 1
    /\ \E limit \in ConfigLimits :
          stats = (TheName :> NewProxyStats(TheName, "tcp", 19001, 19002, limit))
    /\ wpc = [w \in ws |-> "idle"]
    /\ wcall = [w \in ws |-> NoCall]
    /\ sumUp = 0
    /\ sumDown = 0
    /\ zeroStores = [m \in MonthTags |-> 0]
    /\ ncalls = 0
    /\ returned = 0
    /\ fs = [f \in {DataFile, TmpFile} |-> NoFile]
    /\ NoProcess
    /\ NoRelay
    /\ NoUdp

InitCounter == InitCounterOn(Workers)
InitSeq == InitCounterOn({"w1"})

NextCounter ==
    \/ Tick
    \/ \E w \in DOMAIN wpc : CallAdd(w)
    \/ \E w \in DOMAIN wpc : Line106(w)
    \/ \E w \in DOMAIN wpc : Line107(w)
    \/ \E w \in DOMAIN wpc : Line108(w)
    \/ \E w \in DOMAIN wpc : Line109(w)
    \/ \E w \in DOMAIN wpc : Line110(w)
    \/ \E w \in DOMAIN wpc : AddTotal(w)
    \/ \E w \in DOMAIN wpc : AddMonthly(w)
    \/ \E w \in DOMAIN wpc : ReturnAdd(w)

SpecCounter == InitCounter /\ [][NextCounter]_vars
SpecSeq == InitSeq /\ [][NextCounter]_vars

Quiescent == \A w \in DOMAIN wpc : wpc[w] = "idle"

\* ------------------------------------------------------------------ claims

C8_SequentialRollover ==
    \A w \in DOMAIN wpc :
        (wpc[w] = "ret" /\ wcall[w].pre.CurrentMonth # wcall[w].current) =>
            LET s == stats[TheName]
                c == wcall[w]
            IN  /\ s.CurrentMonth = c.current
                /\ c.isUpload =>
                      /\ s.TotalUpload = c.pre.TotalUpload + c.n
                      /\ s.TotalDownload = c.pre.TotalDownload
                      /\ s.MonthlyUpload = c.n
                      /\ s.MonthlyDownload = 0
                /\ ~c.isUpload =>
                      /\ s.TotalDownload = c.pre.TotalDownload + c.n
                      /\ s.TotalUpload = c.pre.TotalUpload
                      /\ s.MonthlyDownload = c.n
                      /\ s.MonthlyUpload = 0

\* AddUpload(a) in month 1, then AddUpload(b) in month 2 has just finished
C8_Witness ==
    \E w \in DOMAIN wpc :
        /\ wpc[w] = "ret"
        /\ wcall[w].isUpload
        /\ wcall[w].pre.CurrentMonth = currentMonthOf(1)
        /\ wcall[w].pre.TotalUpload > 0
        /\ wcall[w].pre.MonthlyUpload = wcall[w].pre.TotalUpload
        /\ wcall[w].current = currentMonthOf(2)
        /\ stats[TheName].TotalUpload = wcall[w].pre.TotalUpload + wcall[w].n
        /\ stats[TheName].MonthlyUpload = wcall[w].n

\* The file is absent or holds a complete encoding.
FileComplete(f) == ~f.exists \/ Unmarshal(f.data).ok

\* C2: tmp-rename atomicity. In every state, whatever step of Save, of the
\* rest of the process or of a crash led to it, the file at DataFile is absent
\* (before the first save) or holds a complete encoding, never a partial one:
\* the complete encoding of the snapshot of the last Save whose rename was
\* done, which is the previous snapshot until the rename of line 57 and the
\* new one from then on.
C2_TmpRenameAtomicity ==
    /\ FileComplete(fs[DataFile])
    /\ fs[DataFile].exists => fs[DataFile].data = Marshal(srcOfPath)

\* the process died while Save was writing: the tmp file holds a part of a
\* newer snapshot, DataFile the complete previous one
C2_Witness ==
    /\ mainPc = "dead"
    /\ fs[TmpFile].exists
    /\ Len(fs[TmpFile].data) > 0
    /\ ~Unmarshal(fs[TmpFile].data).ok
    /\ fs[DataFile].exists
    /\ Unmarshal(fs[DataFile].data).ok
    /\ Len(fs[DataFile].data) >= Len(fs[TmpFile].data)
    /\ SubSeq(fs[DataFile].data, 1, Len(fs[TmpFile].data)) # fs[TmpFile].data

\* C4: persistence round trip. The file a Save renamed into place decodes to
\* exactly the names and field values Save encoded, and a Load of it into the
\* empty registry of a new process leaves the registry equal to them: the same
\* names and, per counter, the same ten fields.
C4_RoundTrip ==
    /\ fs[DataFile].exists =>
          Unmarshal(fs[DataFile].data) = [ok |-> TRUE, val |-> srcOfPath]
    /\ (mainPc = "register" /\ regIdx = 1 /\ loadRes = "loaded") => stats = srcOfPath

\* a new process has just loaded two counters with upload and download bytes
C4_Witness ==
    /\ mainPc = "register"
    /\ regIdx = 1
    /\ loadRes = "loaded"
    /\ DOMAIN stats = {"capped", "echo"}
    /\ \E a, b \in DOMAIN stats :
          /\ stats[a].TotalUpload > 0
          /\ stats[b].TotalDownload > 0
          /\ stats[a].Limit > 0

Bytes(s) == <<s.TotalUpload, s.TotalDownload, s.MonthlyUpload, s.MonthlyDownload>>

\* C5: counters survive a restart. A Register of a name the registry holds
\* keeps that counter and its four byte counters; when the registry was loaded
\* from the state file, the registered counter's byte counters are the saved
\* ones, so the increments that follow continue from them.
C5_RegisterKeepsCounters ==
    [][ (mainPc = "register" /\ regIdx' = regIdx + 1) =>
          LET name == Proxies[regIdx].name
          IN  name \in DOMAIN stats =>
                /\ name \in DOMAIN stats'
                /\ stats'[name].Name = stats[name].Name
                /\ Bytes(stats'[name]) = Bytes(stats[name])
                /\ loadRes = "loaded" => Bytes(stats'[name]) = Bytes(srcOfPath[name]) ]_vars

\* after a restart a loaded counter with bytes has been registered again, with
\* another limit than the saved one, and a relay has added to it since
C5_Witness ==
    /\ loadRes = "loaded"
    /\ "echo" \in Started
    /\ "echo" \in DOMAIN srcOfPath
    /\ srcOfPath["echo"].TotalUpload > 0
    /\ stats["echo"].Limit # srcOfPath["echo"].Limit
    /\ stats["echo"].TotalUpload > srcOfPath["echo"].TotalUpload
    /\ spc = "idle"
    /\ nsaves = 0

\* C9: under concurrent callers the monthly counters are stored to zero
\* exactly once per month boundary: line 108 runs at most once for any month,
\* so no second reset erases an increment made after the first.
C9_ResetOncePerBoundary ==
    \A m \in MonthTags : zeroStores[m] <= 1

\* C10: IsLimitExceeded is true iff Limit > 0 and TotalUpload + TotalDownload
\* >= Limit; false for every total when Limit <= 0, true when the total equals
\* a positive Limit.
C10_LimitPredicate ==
    \A name \in DOMAIN stats :
        LET s == stats[name]
        IN  /\ IsLimitExceeded(s) <=>
                  (s.Limit > 0 /\ s.TotalUpload + s.TotalDownload >= s.Limit)
            /\ s.Limit <= 0 => ~IsLimitExceeded(s)
            /\ (s.Limit > 0 /\ s.TotalUpload + s.TotalDownload = s.Limit)
                  => IsLimitExceeded(s)

\* the total has just reached a positive limit exactly, by both directions
C10_Witness ==
    \E name \in DOMAIN stats :
        /\ stats[name].Limit > 0
        /\ stats[name].TotalUpload > 0
        /\ stats[name].TotalDownload > 0
        /\ stats[name].TotalUpload + stats[name].TotalDownload = stats[name].Limit
        /\ IsLimitExceeded(stats[name])

\* C3: TCP limit gate. A connection whose handler began its check while the
\* limit was exceeded (Limit > 0 and TotalUpload + TotalDownload >= Limit) never
\* gets past the check: no upstream dial is made, no copy task is started, no
\* byte is forwarded or counted for it, and once the handler has returned
\* the client socket is closed.
C3_TcpLimitGate ==
    \A c \in Conns :
        conn[c].gate = "reached" =>
            /\ conn[c].st \in {"l118", "done"}
            /\ ~conn[c].dialed
            /\ ~conn[c].dstOpen
            /\ conn[c].forwarded = 0
            /\ conn[c].counted = 0
            /\ \A d \in Dirs : cp[<<c, d>>].pc = "none"
            /\ conn[c].st = "done" => ~conn[c].srcOpen

\* a connection was relayed and counted up to the limit, and a later one was
\* turned away at the check
C3_Witness ==
    \E c \in Conns, e \in Conns :
        /\ conn[e].counted > 0
        /\ conn[c].gate = "reached"
        /\ conn[c].st = "done"
        /\ ~conn[c].srcOpen

\* TCPProxy.Stop has returned to main
StopReturned == mainPc \in {"l85", "l86", "l88", "done"}

\* C7: TCP stop drains in-flight work. When TCPProxy.Stop has returned, the
\* accept loop has exited and every handler the accept loop started, with both
\* of its copy tasks, has finished.
C7_StopDrainsHandlers ==
    StopReturned =>
        /\ acceptPc = "exited"
        /\ \A c \in Conns : conn[c].st \in {"none", "reset", "done"}
        /\ \A c \in Conns, d \in Dirs : cp[<<c, d>>].pc \in {"none", "done"}

\* C6: the final save is complete. When main's shutdown sequence has finished
\* (the relay's Stop returned, then Persistence.Stop returned), the state file
\* holds for every counter its in-memory byte values.
C6_FinalSaveComplete ==
    mainPc = "done" =>
        /\ fs[DataFile].exists
        /\ LET saved == Unmarshal(fs[DataFile].data).val
           IN  \A name \in DOMAIN stats :
                  /\ name \in DOMAIN saved
                  /\ Bytes(saved[name]) = Bytes(stats[name])

\* C11: UDP limit enforcement. A datagram the UDP relay received while the
\* proxy's limit was exceeded is dropped: it is not written to the upstream
\* socket.
C11_UdpDropsOverLimit == uhist.fwdOver = 0

\* the time of the last datagram received from client a or, by its session's
\* reader, from the upstream target (-1: none yet)
LastTraffic(a) ==
    IF uhist.lastBack[a] > uhist.lastFrom[a] THEN uhist.lastBack[a] ELSE uhist.lastFrom[a]

\* C12, as the code has it: while the relay runs, a client's session is gone
\* from the session map, and its upstream socket closed, once udpTimeout +
\* cleanupInterval have passed since the last datagram received from that
\* client or from the upstream target on that client's session.
C12_SessionRemovedAfterTraffic ==
    \A a \in Addrs :
        (/\ ustopPc = "run"
         /\ LastTraffic(a) >= 0
         /\ unow - LastTraffic(a) > udpTimeout + cleanupInterval)
            => /\ clients[a] = 0
               /\ \A s \in Sessions : socks[s].addr = a => ~socks[s].open

\* a session that carried a reply has been removed for idleness
C12_Witness ==
    \E a \in Addrs :
        /\ ustopPc = "run"
        /\ uhist.lastBack[a] >= 0
        /\ unow - LastTraffic(a) > udpTimeout + cleanupInterval
        /\ clients[a] = 0
        /\ \E s \in Sessions : socks[s].made /\ socks[s].addr = a /\ ~socks[s].open

\* C12, as stated: UDP session liveness. While the relay runs, a client's
\* session is gone from the session map, and its upstream socket closed, once
\* udpTimeout + cleanupInterval have passed since the last datagram received
\* from that client, whatever the upstream target does.
C12_SessionRemovedInTime ==
    \A a \in Addrs :
        (/\ ustopPc = "run"
         /\ uhist.lastFrom[a] >= 0
         /\ unow - uhist.lastFrom[a] > udpTimeout + cleanupInterval)
            => /\ clients[a] = 0
               /\ \A s \in Sessions : socks[s].addr = a => ~socks[s].open

\* the bytes the copy tasks of direction d have added, over connections 1..k
RECURSIVE AddedBy(_, _)
AddedBy(d, k) == IF k = 0 THEN 0 ELSE cp[<<k, d>>].cnt + AddedBy(d, k - 1)

\* C13: TCP attribution by bytes written. For every connection and direction
\* the bytes added to the counter are the bytes written to the destination
\* socket (a write just made is added by the task's next step); bytes read
\* whose write failed are not counted; after a write error the task neither
\* reads nor writes again; TotalUpload and TotalDownload are the sums over
\* the connections.
C13_AttributionByWritten ==
    /\ \A c \in Conns, d \in Dirs :
          LET t == cp[<<c, d>>]
          IN  /\ t.fwd = t.cnt + (IF t.pc = "add" THEN t.written ELSE 0)
              /\ t.werr => t.pc \in {"add", "closeWrite", "done"}
    /\ TheName \in DOMAIN stats =>
          /\ stats[TheName].TotalUpload = AddedBy("up", MaxConns)
          /\ stats[TheName].TotalDownload = AddedBy("down", MaxConns)

\* a write that failed after part of the data has been counted, and the
\* task has ended
C13_Witness ==
    \E c \in Conns, d \in Dirs :
        /\ cp[<<c, d>>].werr
        /\ cp[<<c, d>>].pc = "done"
        /\ cp[<<c, d>>].cnt > 0
        /\ cp[<<c, d>>].cnt < MaxAmount

\* the bytes of the datagrams the session readers 1..k have read and not yet added
RECURSIVE ReadNotAdded(_)
ReadNotAdded(k) ==
    IF k = 0 THEN 0
    ELSE (IF socks[k].rpc = "l199" THEN socks[k].n ELSE 0) + ReadNotAdded(k - 1)

C14_WitnessReuse ==
    /\ uhist.lastFrom["B"] < 0
    /\ stats[TheName].TotalUpload = 2 * MaxAmount
    /\ clients["A"] # 0
    /\ \A s \in Sessions : socks[s].made => s = clients["A"]

\* C15: TCP half-close. When the copy of one direction has ended (its source
\* reached end of stream), the relay closes the write side of the opposite
\* socket, so that the peer there reads end of stream; once both directions
\* have ended the handler closes both sockets and returns. Until then both
\* sockets stay open.
C15_HalfClose ==
    \A c \in Conns :
        /\ (cp[<<c, "up">>].pc = "closeWrite") ~> conn[c].dstFin
        /\ (cp[<<c, "down">>].pc = "closeWrite") ~> conn[c].srcFin
        /\ (\A d \in Dirs : cp[<<c, d>>].pc = "done")
              ~> (conn[c].st = "done" /\ ~conn[c].srcOpen /\ ~conn[c].dstOpen)
        /\ [](conn[c].st = "l119" => conn[c].srcOpen /\ conn[c].dstOpen)

\* the upload direction has ended and the upstream socket is half-closed
\* while the download direction still relays
C15_Witness ==
    \E c \in Conns :
        /\ conn[c].st = "l119"
        /\ cp[<<c, "up">>].pc = "done"
        /\ conn[c].dstFin
        /\ ~conn[c].srcFin
        /\ cp[<<c, "down">>].pc = "write"

\* C16: UDP stop releases every session. When UDPProxy.Stop has returned, the
\* read loop and the cleanup loop have returned and every upstream socket the
\* relay created is closed.
C16_StopClosesSessions ==
    ustopPc = "returned" =>
        /\ rl.pc = "exited"
        /\ cleaner.pc = "exited"
        /\ \A s \in Sessions : socks[s].made => ~socks[s].open

\* C17: cumulative totals are monotone. No step of a running process lowers
\* total_upload or total_download of a registered counter, and the process
\* started after a shutdown whose final save returned without an error loads
\* every counter with totals that are not below the ones the registry held
\* when the previous process returned.
C17_TotalsMonotone ==
    [][/\ \A name \in DOMAIN stats \cap DOMAIN stats' :
            /\ stats'[name].TotalUpload >= stats[name].TotalUpload
            /\ stats'[name].TotalDownload >= stats[name].TotalDownload
       /\ (mainPc = "load" /\ loadRes' = "loaded" /\ held.ok) =>
            \A name \in DOMAIN held.vals :
                /\ name \in DOMAIN stats'
                /\ stats'[name].TotalUpload >= held.vals[name].TotalUpload
                /\ stats'[name].TotalDownload >= held.vals[name].TotalDownload]_vars

\* C18: Register on an existing name updates the configuration. After main's
\* Register of a proxy the counter of that name carries the limit, protocol,
\* listen port and target port of the call, and a counter the call created has
\* its four byte counters at zero and the current month.
C18_RegisterUpdatesConfig ==
    [][(mainPc = "register" /\ regIdx' = regIdx + 1) =>
         LET p == Proxies[regIdx]
             s == stats'[p.name]
         IN  /\ p.name \in DOMAIN stats'
             /\ s.Limit = p.limit
             /\ s.Protocol = p.protocol
             /\ s.ListenPort = p.listenPort
             /\ s.TargetPort = p.targetPort
             /\ p.name \notin DOMAIN stats =>
                    /\ s.TotalUpload = 0 /\ s.TotalDownload = 0
                    /\ s.MonthlyUpload = 0 /\ s.MonthlyDownload = 0
                    /\ s.CurrentMonth = currentMonth]_vars

\* C19: total dominates monthly. For a counter that starts freshly registered,
\* every state of every interleaving of AddUpload / AddDownload calls and month
\* changes, the states between the two atomic additions of a call and during
\* racing month resets included, has MonthlyUpload <= TotalUpload and
\* MonthlyDownload <= TotalDownload.
C19_TotalDominatesMonthly ==
    LET s == stats[TheName]
    IN  /\ s.MonthlyUpload <= s.TotalUpload
        /\ s.MonthlyDownload <= s.TotalDownload

\* one call stands between its two additions while another is inside the
\* month reset, after earlier traffic of both directions
C19_Witness ==
    \E w1, w2 \in DOMAIN wpc :
        /\ wpc[w1] = "addMonthly"
        /\ wpc[w2] \in {"l109", "l110"}
        /\ stats[TheName].MonthlyUpload < stats[TheName].TotalUpload
        /\ stats[TheName].TotalDownload > 0

\* C20: current_month keeps up with the wall clock. Once an AddUpload or
\* AddDownload call that began when the wall-clock month was M has returned,
\* the counter's CurrentMonth is never an earlier month than M, under any
\* interleaving of concurrent callers.
C20_MonthKeepsUp ==
    returned # 0 => stats[TheName].CurrentMonth >= returned

\* C21: Load outcomes. With no state file Load returns success and the
\* registry stays empty; with a file that cannot be read or is not a complete
\* encoding Load returns an error and leaves the registry as it was (SetStats is
\* not called), and main goes on to register the proxies with empty counters;
\* only a successful parse replaces the registry, with what the file encodes.
C21_LoadOutcomes ==
    /\ [][(mainPc = "load" /\ mainPc' = "register") =>
            LET f == fs[DataFile]
                whole == f.exists /\ \E m \in StoredRegistries : f.data = Marshal(m)
            IN  /\ ~f.exists => (loadRes' = "absent" /\ stats' = EmptyStats)
                /\ (f.exists /\ ~whole) => (loadRes' = "error" /\ stats' = stats)
                /\ loadRes' = "error" => (f.exists /\ stats' = stats)
                /\ loadRes' = "loaded" => (whole /\ f.data = Marshal(stats'))
                /\ stats' # stats => loadRes' = "loaded"]_vars
    /\ [](loadRes \in {"absent", "error"} =>
            \A name \in DOMAIN stats :
                /\ name \in Started
                /\ stats[name].TotalUpload + stats[name].TotalDownload <= nadds * MaxAmount)

\* a process found a state file cut short, Load returned the error, and main
\* went on: the proxy is registered with zero counters and the relays run
C21_Witness ==
    /\ mainPc = "run"
    /\ loadRes = "error"
    /\ fs[DataFile].exists
    /\ Len(fs[DataFile].data) = 7
    /\ TheName \in DOMAIN stats
    /\ stats[TheName].TotalUpload = 0

\* C22: a failed periodic save is contained. When a Save called by the
\* goroutine of Persistence.Start returns an error (tmpFile cannot be opened,
\* the write fails part-way, or the rename fails), the file at DataFile is the
\* one that was there when that Save was called; the failing step and the
\* return change neither the counters nor the files; and the goroutine goes
\* back to its select, from where the next tick calls Save again.
C22_SaveFailureContained ==
    /\ []((saveBy = "saver" /\ spc = "ret" /\ saveErr) =>
            (fs[DataFile] = prevFile /\ savePc = "saving"))
    /\ [][(~saveErr /\ saveErr') => (stats' = stats /\ fs' = fs)]_vars
    /\ [][(savePc = "saving" /\ spc = "ret" /\ saveErr /\ savePc' # savePc /\ mainPc' # "dead") =>
            (savePc' = "select" /\ stats' = stats /\ fs' = fs)]_vars

\* the first periodic Save of the process failed after it had written a part
\* of tmpFile; the relay went on counting and the next tick has called Save again
C22_Witness ==
    /\ nboots = 1
    /\ nsaves = 2
    /\ savePc = "saving"
    /\ spc = "l46"
    /\ fs[TmpFile].exists
    /\ ~Unmarshal(fs[TmpFile].data).ok
    /\ ~fs[DataFile].exists
    /\ nadds = MaxAdds

\* C23: single writer of the state file. Persistence.Stop closes stopCh and
\* waits for the goroutine of Start to return before it calls its one final
\* Save: the final Save begins when no Save is in progress and the goroutine
\* has returned, a periodic Save is in progress only while its goroutine is
\* inside it and the final one has not begun, no periodic Save begins once the
\* final one has, and once Stop has returned no Save is in progress.
C23_SingleWriter ==
    /\ [][(mainPc = "l86" /\ mainPc' = "l88") =>
            (savePc = "exited" /\ spc = "idle" /\ saveBy = "none" /\ saveBy' = "main")]_vars
    /\ [](saveBy = "main" => (savePc = "exited" /\ mainPc = "l88"))
    /\ [](saveBy = "saver" => (savePc = "saving" /\ mainPc \in {"run", "stopRelays", "l85", "l86"}))
    /\ [][(savePc' = "saving" /\ savePc # "saving") =>
            mainPc \in {"run", "stopRelays", "l85", "l86"}]_vars
    /\ [](mainPc = "done" => (spc = "idle" /\ saveBy = "none" /\ savePc = "exited"))

\* Stop has closed stopCh and waits in wg.Wait() while the goroutine, whose
\* select took the tick, is writing a periodic Save
C23_Witness ==
    /\ mainPc = "l86"
    /\ pstopCh
    /\ savePc = "saving"
    /\ saveBy = "saver"
    /\ spc = "write"
    /\ nsaves = 2

\* C24: lock discipline. No goroutine holds the registry's lock and the
\* session map's lock at the same time, and none dials the upstream, reads a
\* socket or writes a socket while it holds either: while the read loop, the
\* one goroutine that keeps clientsMu across several operations, holds it, no
\* upstream socket is dialled (only the read loop dials).
C24_LockDiscipline ==
    [][clientsMu = "readLoop" =>
         \A s \in Sessions : socks'[s].made = socks[s].made]_vars

\* C25: a session reader only removes its own session. In a step in which the
\* reader of session s returns after removeClient (idle timeout or read error),
\* the session deleted from the map and the socket closed are those of s, never
\* a newer session stored under the same client address.
C25_ReaderRemovesOwnSession ==
    [][\A s \in Sessions :
          (socks[s].rpc \in {"l177", "l184"} /\ socks'[s].rpc = "exited" /\ ~ustopCh) =>
             /\ clients' # clients => clients[socks[s].addr] = s
             /\ \A t \in Sessions : (socks[t].open /\ ~socks'[t].open) => t = s]_vars

\* C26: only idle sessions are evicted. In a step in which the cleanup loop or
\* a reader's timeout path deletes the session of a client address, that
\* session is idle then (now - lastActive > udpTimeout); and while the relay
\* runs the read loop writes no datagram to an upstream socket that is closed.
C26_OnlyIdleEvicted ==
    [][/\ \A a \in Addrs :
            (/\ clients[a] # 0
             /\ clients'[a] = 0
             /\ \/ cleaner' # cleaner
                \/ \E s \in Sessions : socks[s].rpc = "l184" /\ socks'[s].rpc = "exited")
            => Idle(unow, socks[clients[a]].lastActive)
       /\ (rl.pc = "l122" /\ rl'.pc = "l93" /\ ustopPc = "run") => socks[rl.client].open]_vars

\* C27: saved snapshots keep total >= monthly. In the first process (counters
\* started from zero, the month does not change), every file Save has put at
\* DataFile while relays add to the counters decodes to counters with
\* monthly_upload <= total_upload and monthly_download <= total_download.
C27_SnapshotTotalDominates ==
    (nboots = 1 /\ clock = 1 /\ fs[DataFile].exists) =>
        LET saved == Unmarshal(fs[DataFile].data).val
        IN  \A name \in DOMAIN saved :
                /\ saved[name].MonthlyUpload <= saved[name].TotalUpload
                /\ saved[name].MonthlyDownload <= saved[name].TotalDownload

\* C28: the session map matches the open sockets. While the relay runs (Stop
\* not called), in every state between the locked sections of
\* getOrCreateClient, removeClient and cleanupStaleClients, the sessions in the
\* map are exactly the upstream sockets dialled and not closed: each entry
\* holds an open socket made for that address, no open socket is outside the
\* map, and no socket is dialled for an address that has an entry.
C28_MapMatchesSockets ==
    /\ [](ustopPc = "run" =>
            /\ \A a \in Addrs : clients[a] # 0 =>
                   (socks[clients[a]].open /\ socks[clients[a]].addr = a)
            /\ \A s \in Sessions : socks[s].open =>
                   (socks[s].made /\ clients[socks[s].addr] = s))
    /\ [][\A s \in Sessions : (~socks[s].made /\ socks'[s].made) =>
            (clients[rl.addr] = 0 /\ clients'[rl.addr] = s)]_vars

\* an idle session was closed and deleted, and a later datagram of the same
\* client made a new session, the only one in the map
C28_Witness ==
    /\ ustopPc = "run"
    /\ \E s, t \in Sessions :
          /\ socks[s].made /\ ~socks[s].open
          /\ socks[t].open
          /\ socks[t].addr = socks[s].addr
          /\ clients[socks[t].addr] = t

\* C29: the limit gate latches. For a counter with a fixed positive limit,
\* once IsLimitExceeded is true it is true in every later state of the process,
\* through month rollovers too; a handler that begins its check from then on
\* is turned away (no dial, nothing counted); and a connection established
\* before is closed only by its own handler's return, after both of its copy
\* tasks have finished.
C29_LimitGateLatches ==
    /\ [][IsLimitExceeded(stats[TheName]) => IsLimitExceeded(stats'[TheName])]_vars
    /\ [][\A c \in Conns :
            (IsLimitExceeded(stats[TheName]) /\ conn[c].st = "l90" /\ conn'[c].st # "l90") =>
                conn'[c].gate = "reached"]_vars
    /\ [](\A c \in Conns : conn[c].gate = "reached" =>
            (conn[c].st \in {"l118", "done"} /\ ~conn[c].dialed /\ conn[c].counted = 0))
    /\ [][\A c \in Conns : (conn[c].dialed /\ conn[c].srcOpen /\ ~conn'[c].srcOpen) =>
            \A d \in Dirs : cp[<<c, d>>].pc = "done"]_vars

\* the limit was reached in the first month; in the second month the
\* established connection has added more (the monthly counters, reset, are
\* below the limit) and a new connection has been turned away
C29_Witness ==
    LET s == stats[TheName]
    IN  /\ clock = 2
        /\ s.CurrentMonth = currentMonthOf(2)
        /\ s.Limit > 0
        /\ s.MonthlyUpload + s.MonthlyDownload < s.Limit
        /\ s.TotalUpload + s.TotalDownload > s.Limit
        /\ \E c, e \in Conns :
              /\ conn[c].st = "l119" /\ conn[c].srcOpen /\ conn[c].counted > s.Limit
              /\ conn[e].gate = "reached" /\ conn[e].st = "done"

\* C30: Stop terminates. Under fair scheduling a call of TCPProxy.Stop, of
\* UDPProxy.Stop and of Persistence.Stop returns, whatever the accept loop,
\* the read loop, the cleanup loop, a session being created or a periodic
\* Save are doing when it is called.
C30_StopTerminates ==
    /\ (mainPc = "l56") ~> (mainPc = "l85")
    /\ (ustopPc = "l75") ~> (ustopPc = "returned")
    /\ (mainPc = "l86") ~> (mainPc = "done")

\* TCPProxy.Stop returned while a handler was still inside its connection,
\* and Persistence.Stop returned after it had waited for a periodic Save
C30_Witness ==
    /\ mainPc = "done"
    /\ nsaves > 0
    /\ \E c \in Conns : conn[c].st = "l119"
    /\ fs[DataFile].exists

\* UDPProxy.Stop returned although the read loop made a session while it ran
C30_WitnessUdp ==
    /\ ustopPc = "returned"
    /\ \E s \in Sessions : socks[s].open

====
